---- MODULE Spec2Model ----
(***************************************************************************)
(* Scenario simulation market, valuation cube and application run of ORE.  *)
(*                                                                         *)
(*   Spec        ValuationEngine::buildCube driving                        *)
(*               ScenarioSimMarket::update, fed by an arbitrary scenario   *)
(*               generator, and the valuation calculators                  *)
(*   SpecRun     OREApp::run, step by step                                 *)
(*   SpecCubeIO  NPVCube set / save / load                                 *)
(*   SpecCube    initCube and set / get calls on the cube it makes         *)
(*   SpecWriter  ScenarioWriter between a generator and its caller         *)
(*   SpecMarket  the ScenarioSimMarket constructor, update calls and       *)
(*               generator resets, for several parameter sets              *)
(*   SpecConstruct  the constructor over the volatility configurations     *)
(*   SpecKeys    RiskFactorKey comparison                                  *)
(*   SpecOrder   CurveLoader order() on lists of curve specs               *)
(***************************************************************************)
EXTENDS Integers, Sequences, FiniteSets, TLC

VARIABLES
    \* ---- ScenarioSimMarket
    simData_,          \* quote bank: RiskFactorKey -> value of its SimpleQuote
    numeraire_,        \* numeraire of the scenario applied last
    evaluationDate,    \* Settings::instance().evaluationDate()
    om,                \* ObservationMode::instance().mode()
    updatesEnabled,    \* ObservableSettings: "enabled", "disabled", "deferred"
    refreshes,         \* number of refresh() calls made by the last update
    fixingDate,        \* date of the last fixingManager_->update
    asd_,              \* aggregation scenario data sink: attached?
    asdPos,            \* sink position: number of next() calls on the sink
    asdData,           \* what the last update recorded in the sink
    scenario,          \* the scenario pulled by the last update
    setCount,          \* per key: setValue calls made by the last update
    updateResult,      \* "none", "ok", "pointsMissing", "sizeMismatch"
    updateTrace,       \* what the last update did, in the order it did it
    \* ---- ValuationEngine::buildCube
    pc,                \* "update", "price", "done", "aborted"
    dateIdx,           \* index into the date grid, 1..NumDates
    sample,            \* current sample, 0..NumSamples-1
    tradeIdx,          \* next trade to price, 1..NumTrades
    cubeDepth_,        \* depth of the cube
    cube_,             \* the cube: [ids, dates, samples, depth, data], data the cells
                       \* <<trade, date, sample, depth>> -> value; depth 0: no cube
    writes,            \* per cell: number of set calls
    failAt,            \* the pricing call <<trade, date, sample>> that throws, or <<>>
    continueOnError_,  \* the continue-on-error configuration flag
    errors,            \* pricing failures recorded by the engine
    updates,           \* sequence of <<date, sample>> of the update calls made
    priced,            \* sequence of <<trade, date, sample>> calculator calls
    \* ---- OREApp
    rpc,               \* position of OREApp::run: the step to execute next
    simulate_, xva_, writeDIMReport_, sensitivity_, stress_, parametricVar_,
    writeBaseScenario_,  \* the switches readSetup reads
    out_,              \* the console: labels still waiting for a status, the last status
    ret,               \* status run returned: <<0>>, <<1>>, or <<>> for none
    raised,            \* the step whose exception run caught, or "none"
    steps,             \* the steps completed so far, in order
    portfolioSize,     \* portfolio_->size()
    scenarioData_,     \* aggregation scenario data: [dimDates, dimSamples, fromFile]
    cubeFromFile,      \* cube_ was loaded by loadCube
    cubeFile,          \* the cube file: header and payload
    savedCube,         \* the cube as it was when save wrote the file
    cubeCall,          \* the last call made on the cube: [op, cell, value, result, got]
    \* ---- ScenarioWriter
    scenarioWriter,    \* the writer: [keys_, i_, header, file]
    src_,              \* the wrapped generator: its keys, the dates asked, the scenarios made
    consumer,          \* the caller of next: the dates it asked, the scenarios it got
    \* ---- ScenarioSimMarket, its parameters and its generator
    parameters_,       \* ScenarioSimMarketParameters the market was given
    built,             \* the constructor: "no" not run, "yes" returned, "failed" did not
    scenarioGenerator_,  \* the generator: [keys, pos, asked], keys its key lists
    prevUpdate,        \* the update call made last: [stage, date, pos, cells]
    volCurves_,        \* swaptionCurves_, capFloorCurves_, fxVols_, equityVols_: per
                       \* category and name the structure the constructor built
    \* ---- RiskFactorKey comparison and CurveLoader
    keyCompare,        \* three keys and what their operator== and operator< returned
    curveLoader,       \* the arguments of order() and what it left: [curveSpecs,
                       \* curveConfigs, continueOnError, errors, status, passes,
                       \* input, left]
    legacy             \* the application is the void OREApp::run() revision

marketVars == <<simData_, numeraire_, evaluationDate, om, updatesEnabled, refreshes,
                fixingDate, asd_, asdPos, asdData, scenario, setCount, updateResult,
                updateTrace>>
engineVars == <<pc, dateIdx, sample, tradeIdx, cubeDepth_, cube_, writes, failAt,
                continueOnError_, errors, updates, priced>>
writerVars == <<scenarioWriter, src_, consumer>>
simVars == <<parameters_, built, scenarioGenerator_, prevUpdate, volCurves_>>
loaderVars == <<keyCompare, curveLoader>>
callVars == <<cubeCall, writerVars, simVars, loaderVars>>
runVars == <<rpc, simulate_, xva_, writeDIMReport_, sensitivity_, stress_, parametricVar_,
             writeBaseScenario_, out_, ret, raised, steps, portfolioSize, scenarioData_,
             cubeFromFile, cubeFile, savedCube, legacy, callVars>>
vars == <<marketVars, engineVars, runVars>>

----------------------------------------------------------------------------
(* Bounds *)
MaxScenarioKeys == 2      \* longest key sequence a scenario carries
NumDates == 2             \* size of the simulation date grid
NumSamples == 2           \* number of samples
NumTrades == 2            \* portfolio size

Values == {1, 2}          \* the draws of the scenario generator
AsOf == 0                 \* asof date; grid date i is the integer i
Dates == 1..NumDates
Samples == 0..(NumSamples - 1)
Trades == 1..NumTrades

----------------------------------------------------------------------------
(* RiskFactorKey: <<category, qualifier, index>> *)
RiskFactorKey(type, name, index) == <<type, name, index>>

NumKeyIndices == 2        \* pillars per compared category and qualifier

\* the categories in the order of the enumeration, the qualifiers in the order
\* of their strings
KeyTypeOrder == <<"DiscountCurve", "IndexCurve", "FXSpot">>
QualifierOrder == <<"EUR", "EURUSD", "USD">>

\* position of an element in a sequence without repetitions
Rank(order, x) == CHOOSE i \in 1..Len(order) : order[i] = x

\* the three fields of a key as numbers
KeyTie(k) == <<Rank(KeyTypeOrder, k[1]), Rank(QualifierOrder, k[2]), k[3]>>

\* lexicographic comparison of two tuples of the same length
RECURSIVE TupleLess(_, _)
TupleLess(s, t) ==
    IF s = <<>> THEN FALSE
    ELSE IF Head(s) # Head(t) THEN Head(s) < Head(t)
    ELSE TupleLess(Tail(s), Tail(t))

\* operator== of RiskFactorKey
KeyEqual(a, b) == a[1] = b[1] /\ a[2] = b[2] /\ a[3] = b[3]

\* operator< leaving the qualifier out
KeyLessByTypeAndIndex(a, b) ==
    TupleLess(<<KeyTie(a)[1], KeyTie(a)[3]>>, <<KeyTie(b)[1], KeyTie(b)[3]>>)

\* operator< of RiskFactorKey
KeyLess(a, b) == TupleLess(KeyTie(a), KeyTie(b))

\* parameters of the simulation market
ParamCcys == {"EUR"}
ParamFxCcyPairs == {"EURUSD"}
YieldCurveTenors == <<"1Y">>

NumExpiries == 2          \* expiries of a volatility grid
NumTerms == 3             \* swap terms, or strikes, of a volatility grid

\* the volatility categories, by the key type of their cells: swaption,
\* cap/floor, FX and equity volatilities
VolCategories == {"SwaptionVolatility", "OptionletVolatility", "FXVolatility", "EQVolatility"}

\* second dimension of a category's grid: swapVolTerms, capFloorVolStrikes; the
\* FX and equity volatilities are curves over the expiries
VolPoints(cat) == IF cat \in {"SwaptionVolatility", "OptionletVolatility"} THEN NumTerms ELSE 1

\* Size index = i * swapTenors.size() + j;  i * strikes.size() + j;  i for a curve
VolIndexByExpiries(i, j, points) == i * NumExpiries + j

VolIndex(i, j, points) == i * points + j

DecayModes == {"ForwardVariance", "ConstantVariance"}

\* parseDecayMode: the mode, or QL_FAIL("Decay mode ... not recognized")
parseDecayMode(str) == IF str \in DecayModes THEN str ELSE "notRecognized"

\* a category the parameters leave out: swapVolCcys() etc. empty
NoVol == [names |-> {}, simulate |-> FALSE, decayMode |-> "ForwardVariance"]

\* ScenarioSimMarketParameters of the run: the base currency, what is simulated,
\* and the series recorded in the aggregation scenario data
DefaultParameters ==
    [baseCcy |-> "USD", ccys |-> ParamCcys, fxCcyPairs |-> ParamFxCcyPairs,
     yieldCurveTenors |-> YieldCurveTenors, indices |-> {},
     additionalScenarioDataIndices |-> {}, additionalScenarioDataCcys |-> {"EUR", "USD"},
     yieldCurveNames |-> {}, securities |-> {}, defaultNames |-> {},
     defaultTenors |-> <<"1Y">>, equityNames |-> {}, equityTenors |-> <<"1Y">>,
     vol |-> [cat \in VolCategories |-> NoVol]]

\* the cells of the volatility categories: with the simulate flag one per grid
\* point and name, none without
ConstructVolKeys(p) ==
    UNION { { RiskFactorKey(cat, name, VolIndex(i, j, VolPoints(cat))) :
                 name \in p.vol[cat].names,
                 i \in 0..(NumExpiries - 1), j \in 0..(VolPoints(cat) - 1) } :
            cat \in { c \in VolCategories : p.vol[c].simulate } }

\* the keys the constructor registers: one per FX pair, one per tenor for every
\* discount curve, benchmark yield curve and index curve, one per equity spot,
\* and the cells of the simulated volatilities; security spreads, default
\* curves, recovery rates and equity dividend curves get quotes but no cell
ConstructKeys(p) ==
    { RiskFactorKey("FXSpot", pair, 0) : pair \in p.fxCcyPairs }
    \cup { RiskFactorKey("DiscountCurve", c, i - 1) :
              c \in p.ccys, i \in 1..Len(p.yieldCurveTenors) }
    \cup { RiskFactorKey("YieldCurve", name, i - 1) :
              name \in p.yieldCurveNames, i \in 1..Len(p.yieldCurveTenors) }
    \cup { RiskFactorKey("IndexCurve", ind, i - 1) :
              ind \in p.indices, i \in 1..Len(p.yieldCurveTenors) }
    \cup ConstructVolKeys(p)
    \cup { RiskFactorKey("EQSpot", name, 0) : name \in p.equityNames }

\* the volatility structures the constructor builds: a matrix or curve over the
\* registered quotes, or a wrapper of the initial surface ageing by the decay mode
ConstructVolCurves(p) ==
    [cat \in VolCategories |->
       [name \in p.vol[cat].names |->
          IF p.vol[cat].simulate THEN [kind |-> "quotes", decayMode |-> "none"]
          ELSE [kind |-> "dynamic", decayMode |-> parseDecayMode(p.vol[cat].decayMode)]]]

\* the keys the constructor registers for the given currencies and pairs
ConstructSimData(ccys, fxCcyPairs) ==
    ConstructKeys([DefaultParameters EXCEPT !.ccys = ccys, !.fxCcyPairs = fxCcyPairs])

\* keys a generator may put into a scenario: the registrable ones and a foreign one
ScenarioKeyUniverse ==
    ConstructSimData(ParamCcys, ParamFxCcyPairs) \cup { RiskFactorKey("DiscountCurve", "USD", 0) }

Range(s) == { s[i] : i \in DOMAIN s }

KeySeqs == UNION { [1..n -> ScenarioKeyUniverse] : n \in 0..MaxScenarioKeys }

\* Scenario: keys() in generator order, get(key) for each key it has, getNumeraire().
\* A generator draw v gives every key its own value, and the numeraire another one.
KeyTag(key) ==
    IF key[1] = "FXSpot" THEN 1
    ELSE IF key[1] = "IndexCurve" THEN 4 + key[3]
    ELSE IF key[2] \in ParamCcys THEN 2 + key[3] ELSE 6 + key[3]

DrawnValue(key, v) == 10 * v + KeyTag(key)

GenScenario(ks, v) ==
    [keys |-> ks, data |-> [k \in Range(ks) |-> DrawnValue(k, v)], numeraire |-> 10 * v]

Scenarios == { GenScenario(ks, v) : ks \in KeySeqs, v \in Values }

NoScenario == [keys |-> <<>>, data |-> <<>>, numeraire |-> 0]

ScenarioHas(sc, key) == key \in DOMAIN sc.data
ScenarioGetNothing(sc, key) == 0

ScenarioGet(sc, key) == sc.data[key]

ObservationModes == {"None", "Disable", "Defer", "Unregister"}

----------------------------------------------------------------------------
(* ScenarioSimMarket::update *)

\* the key loop: every key of the scenario, in order, is looked up in simData_;
\* a found cell is set and counted, a key without a cell raises missingPoint
RECURSIVE ApplyKeys(_, _, _)
ApplyKeys(sc, i, st) ==
    IF i > Len(sc.keys) THEN st
    ELSE LET key == sc.keys[i] IN
         ApplyKeys(sc, i + 1,
             IF key \notin DOMAIN st.cells
             THEN [st EXCEPT !.missingPoint = TRUE]
             ELSE [st EXCEPT !.cells[key] = ScenarioGet(sc, key),
                             !.sets[key] = @ + 1,
                             !.count = @ + 1])

KeyLoopInserting(sc) ==
    LET st == ApplyKeys(sc, 1, [cells |-> simData_, sets |-> [k \in DOMAIN simData_ |-> 0],
                                count |-> 0, missingPoint |-> FALSE])
    IN [st EXCEPT !.cells = [k \in DOMAIN st.cells \cup Range(sc.keys) |->
                               IF k \in DOMAIN st.cells THEN st.cells[k]
                               ELSE ScenarioGet(sc, k)]]

KeyLoop(sc) ==
    ApplyKeys(sc, 1, [cells |-> simData_, sets |-> [k \in DOMAIN simData_ |-> 0],
                      count |-> 0, missingPoint |-> FALSE])

\* the two checks after the key loop, in the order of the code:
\*   "pointsMissing"  QL_REQUIRE(!missingPoint,
\*                      "simulation data points missing from scenario, exit.")
\*   "sizeMismatch"   QL_FAIL("mismatch between scenario and sim data size, exit.")
UpdateOutcome(st) ==
    IF st.missingPoint THEN "pointsMissing"
    ELSE IF st.count # Cardinality(DOMAIN simData_) THEN "sizeMismatch"
    ELSE "ok"

\* ObservableSettings after the switch at the start of update
UpdatesEnabledAgain == "enabled"

SuspendUpdates ==
    IF om = "Disable" THEN "disabled"
    ELSE IF om = "Defer" THEN "deferred"
    ELSE updatesEnabled

\* iborIndex(i)->fixing(d): read off the index curve of i as its cells stand,
\* with the historical fixings the fixing manager has applied
IndexFixing(i, d, cells, fixings) ==
    [date |-> d, fixingsTo |-> fixings,
     curve |-> [k \in { q \in DOMAIN cells : q[1] = "IndexCurve" /\ q[2] = i } |-> cells[k]]]

\* fxSpot(c + baseCcy)->value(): the quote of the pair
FxSpotValue(c, cells) == cells[RiskFactorKey("FXSpot", c \o parameters_.baseCcy, 0)]

\* what update adds to the aggregation scenario data at the sink's position: the
\* fixing of every additional index, the FX spot of every additional currency
\* but the base currency, and numeraire_; cells and fixings are the quote bank
\* and the fixing manager's date at the time of the reads
AsdRecordFromOldCells(d, sc, cells, fixings) ==
    [pos |-> asdPos, date |-> d, numeraire |-> sc.numeraire,
     index |-> [i \in parameters_.additionalScenarioDataIndices |->
                  IndexFixing(i, d, simData_, fixings)],
     fx |-> [c \in parameters_.additionalScenarioDataCcys \ {parameters_.baseCcy} |->
               FxSpotValue(c, simData_)]]

AsdRecord(d, sc, cells, fixings) ==
    [pos |-> asdPos, date |-> d, numeraire |-> sc.numeraire,
     index |-> [i \in parameters_.additionalScenarioDataIndices |->
                  IndexFixing(i, d, cells, fixings)],
     fx |-> [c \in parameters_.additionalScenarioDataCcys \ {parameters_.baseCcy} |->
               FxSpotValue(c, cells)]]

NoAsdRecord == [pos |-> -1, date |-> AsOf, numeraire |-> 0, index |-> <<>>, fx |-> <<>>]

\* the statements of update in the order of the code: the switch on the
\* observation mode, next, the numeraire and the evaluation date, the key loop,
\* then either the throw of a check or refresh / enableUpdates, the fixing
\* manager and the aggregation scenario data
UpdateTraceRefreshFirst(sc, res) ==
    (IF om = "Disable" THEN <<"refresh", "disableUpdates(false)">>
     ELSE IF om = "Defer" THEN <<"disableUpdates(true)">> ELSE <<>>)
    \o <<"next", "numeraire_", "evaluationDate">>
    \o [i \in 1..Len(sc.keys) |->
          IF sc.keys[i] \in DOMAIN simData_ THEN "setValue" ELSE "missingPoint"]
    \o (IF res # "ok" THEN <<"throw">>
        ELSE (IF om \in {"Disable", "Defer"} THEN <<"enableUpdates">> ELSE <<>>)
             \o <<"fixingManager_->update">>
             \o (IF asd_ THEN <<"asd_">> ELSE <<>>))

UpdateTrace(sc, res) ==
    (IF om = "Disable" THEN <<"disableUpdates(false)">>
     ELSE IF om = "Defer" THEN <<"disableUpdates(true)">> ELSE <<>>)
    \o <<"next", "numeraire_", "evaluationDate">>
    \o [i \in 1..Len(sc.keys) |->
          IF sc.keys[i] \in DOMAIN simData_ THEN "setValue" ELSE "missingPoint"]
    \o (IF res # "ok" THEN <<"throw">>
        ELSE (IF om = "Disable" THEN <<"refresh", "enableUpdates">>
              ELSE IF om = "Defer" THEN <<"enableUpdates">> ELSE <<>>)
             \o <<"fixingManager_->update">>
             \o (IF asd_ THEN <<"asd_">> ELSE <<>>))

\* update(d) with sc the scenario scenarioGenerator_->next(d) returns
Update(d, sc) ==
    LET st == KeyLoop(sc)
        res == UpdateOutcome(st)
    IN /\ scenario' = sc
       /\ numeraire_' = sc.numeraire
       /\ evaluationDate' = d
       /\ simData_' = st.cells
       /\ setCount' = st.sets
       /\ updateResult' = res
       /\ updateTrace' = UpdateTrace(sc, res)
       /\ om' = om
       /\ asd_' = asd_
       /\ IF res = "ok"
          THEN /\ refreshes' = (IF om = "Disable" THEN 1 ELSE 0)
               /\ updatesEnabled' =
                     (IF om \in {"Disable", "Defer"} THEN "enabled" ELSE updatesEnabled)
               /\ fixingDate' = d
               /\ IF asd_
                  THEN /\ asdData' = AsdRecord(d, sc, st.cells, d)
                       /\ asdPos' = asdPos + 1
                  ELSE UNCHANGED <<asdData, asdPos>>
          ELSE /\ refreshes' = 0
               /\ updatesEnabled' = SuspendUpdates
               /\ UNCHANGED <<fixingDate, asdData, asdPos>>

\* the bank directly after construction: one cell per registered key
InitSimData(ccys, fxCcyPairs) == [k \in ConstructSimData(ccys, fxCcyPairs) |-> 0]

InitMarketVars(ccys, fxCcyPairs, modes) ==
    /\ simData_ = InitSimData(ccys, fxCcyPairs)
    /\ numeraire_ = 0
    /\ evaluationDate = AsOf
    /\ om \in modes
    /\ updatesEnabled = "enabled"
    /\ refreshes = 0
    /\ fixingDate = AsOf
    /\ asdPos = 0
    /\ asdData = NoAsdRecord
    /\ scenario = NoScenario
    /\ setCount = [k \in DOMAIN simData_ |-> 0]
    /\ updateResult = "none"
    /\ updateTrace = <<>>

----------------------------------------------------------------------------
(* ValuationEngine::buildCube and the cube it fills *)

CubeCells(ids, dates, samples, depth) ==
    (1..ids) \X (1..dates) \X (0..(samples - 1)) \X (0..(depth - 1))

\* a cube of the given dimensions with every cell at its default
NewCube(ids, dates, samples, depth) ==
    [ids |-> ids, dates |-> dates, samples |-> samples, depth |-> depth,
     data |-> [c \in CubeCells(ids, dates, samples, depth) |-> 0]]

\* cube_ before any cube was built or loaded
NoCube == [ids |-> 0, dates |-> 0, samples |-> 0, depth |-> 0, data |-> <<>>]

\* initCube making a cube of whatever depth is asked for
InitCubeAnyDepth(ids, dates, samples, depth) == NewCube(ids, dates, samples, depth)

\* initCube: a cube of depth 1 or 2 over the portfolio ids, the grid and the
\* samples; any other depth fails and leaves cube_ as it is
InitCube(ids, dates, samples, depth) ==
    IF depth \in {1, 2} THEN NewCube(ids, dates, samples, depth) ELSE NoCube

\* buildNPVCube forgetting the cash flow calculator of a depth-2 cube
CalculatorsNpvOnly(depth) == {[name |-> "NPV", depth |-> 0]}

\* the calculators buildNPVCube registers: NPV at depth 0, cash flows at depth 1
Calculators(depth) ==
    IF depth > 1 THEN {[name |-> "NPV", depth |-> 0], [name |-> "Cashflow", depth |-> 1]}
    ELSE {[name |-> "NPV", depth |-> 0]}

\* the value a calculator writes for a trade
CalculatorValue == 1

\* the loops nested the other way round: the dates of a sample, then the next sample
NextPairSampleMajor(d, s) ==
    IF d < NumDates THEN <<d + 1, s>>
    ELSE IF s + 1 < NumSamples THEN <<1, s + 1>>
    ELSE <<>>

\* the (date, sample) pair after <<d, s>>: the samples of a date in increasing
\* order, then the next date; <<>> after the last pair
NextPair(d, s) ==
    IF s + 1 < NumSamples THEN <<d, s + 1>>
    ELSE IF d < NumDates THEN <<d + 1, 0>>
    ELSE <<>>

\* the loop position after the last trade of <<dateIdx, sample>> was handled
AdvancePair ==
    LET nx == NextPair(dateIdx, sample) IN
    IF nx = <<>>
    THEN /\ pc' = "done"
         /\ UNCHANGED <<dateIdx, sample, tradeIdx>>
    ELSE /\ pc' = "update"
         /\ dateIdx' = nx[1]
         /\ sample' = nx[2]
         /\ tradeIdx' = 1

AdvanceTrade ==
    IF tradeIdx < NumTrades
    THEN /\ tradeIdx' = tradeIdx + 1
         /\ UNCHANGED <<pc, dateIdx, sample>>
    ELSE AdvancePair

\* market.update(date) for the current pair; a mismatch error ends the run
EngineUpdate ==
    /\ pc = "update"
    /\ \E sc \in Scenarios : Update(dateIdx, sc)
    /\ updates' = Append(updates, <<dateIdx, sample>>)
    /\ IF updateResult' = "ok"
       THEN /\ pc' = "price"
            /\ tradeIdx' = 1
       ELSE /\ pc' = "aborted"
            /\ tradeIdx' = tradeIdx
    /\ UNCHANGED <<dateIdx, sample, cubeDepth_, cube_, writes, failAt, continueOnError_,
                   errors, priced, runVars>>

\* every calculator writes its cell of the current trade / date / sample
PriceTrade ==
    /\ pc = "price"
    /\ failAt # <<tradeIdx, dateIdx, sample>>
    /\ LET cells == { <<tradeIdx, dateIdx, sample, c.depth>> : c \in Calculators(cubeDepth_) }
       IN /\ cube_' = [cube_ EXCEPT !.data = [c \in DOMAIN @ |->
                                   IF c \in cells THEN CalculatorValue ELSE @[c]]]
          /\ writes' = [c \in DOMAIN writes |-> IF c \in cells THEN writes[c] + 1 ELSE writes[c]]
    /\ priced' = Append(priced, <<tradeIdx, dateIdx, sample>>)
    /\ AdvanceTrade
    /\ UNCHANGED <<marketVars, cubeDepth_, failAt, continueOnError_, errors, updates, runVars>>

\* a failing trade aborts the run whatever the flag says
PriceFailsAlwaysAborts ==
    /\ pc = "price"
    /\ failAt = <<tradeIdx, dateIdx, sample>>
    /\ priced' = Append(priced, <<tradeIdx, dateIdx, sample>>)
    /\ pc' = "aborted"
    /\ UNCHANGED <<errors, dateIdx, sample, tradeIdx>>
    /\ UNCHANGED <<marketVars, cubeDepth_, cube_, writes, failAt, continueOnError_, updates,
                   runVars>>

\* pricing the current trade throws: recorded and skipped, or the run is aborted
PriceFails ==
    /\ pc = "price"
    /\ failAt = <<tradeIdx, dateIdx, sample>>
    /\ priced' = Append(priced, <<tradeIdx, dateIdx, sample>>)
    /\ IF continueOnError_
       THEN /\ errors' = errors \cup {<<tradeIdx, dateIdx, sample>>}
            /\ AdvanceTrade
       ELSE /\ pc' = "aborted"
            /\ UNCHANGED <<errors, dateIdx, sample, tradeIdx>>
    /\ UNCHANGED <<marketVars, cubeDepth_, cube_, writes, failAt, continueOnError_, updates,
                   runVars>>

InitEngineVars ==
    /\ pc = "update"
    /\ dateIdx = 1
    /\ sample = 0
    /\ tradeIdx = 1
    /\ cubeDepth_ \in {1, 2}
    /\ cube_ = InitCube(NumTrades, NumDates, NumSamples, cubeDepth_)
    /\ writes = [c \in DOMAIN cube_.data |-> 0]
    /\ failAt \in {<<>>} \cup (Trades \X Dates \X Samples)
    /\ continueOnError_ \in BOOLEAN
    /\ errors = {}
    /\ updates = <<>>
    /\ priced = <<>>

NoScenarioData == [dimDates |-> 0, dimSamples |-> 0, fromFile |-> FALSE, null |-> TRUE]

\* initAggregationScenarioData sizing the sink for a single sample
NewScenarioDataOneSample(dates, samples) ==
    [dimDates |-> dates, dimSamples |-> 1, fromFile |-> FALSE, null |-> FALSE]

\* initAggregationScenarioData: a sink of grid size x samples
NewScenarioData(dates, samples) ==
    [dimDates |-> dates, dimSamples |-> samples, fromFile |-> FALSE, null |-> FALSE]

\* no cube file written
NoFile == [asof |-> AsOf, ids |-> <<>>, dates |-> <<>>, samples |-> 0, depth |-> 0,
           payload |-> <<>>]

\* no call made yet
NoCall == [op |-> "none", cell |-> <<>>, value |-> 0, result |-> "none", got |-> 0]

\* no scenario dump configured
NoWriter == [keys_ |-> <<>>, i_ |-> 0, header |-> FALSE, file |-> <<>>]

NoSource == [keys |-> <<>>, asked |-> <<>>, produced |-> <<>>]

NoConsumer == [asked |-> <<>>, got |-> <<>>]

\* no generator call made
NoGenerator == [keys |-> <<>>, pos |-> 0, asked |-> <<>>]

NoUpdate == [stage |-> "none", date |-> AsOf, pos |-> 0, cells |-> <<>>]

\* no keys compared
NoCompare == [keys |-> <<>>, less |-> <<>>, equal |-> <<>>, done |-> FALSE]

\* order() not called
NoOrder == [curveSpecs |-> <<>>, curveConfigs |-> <<>>, continueOnError |-> FALSE,
            errors |-> <<>>, status |-> "none", passes |-> 0, input |-> <<>>,
            left |-> <<>>]

InitLoaderVars ==
    /\ keyCompare = NoCompare
    /\ curveLoader = NoOrder

\* the market of the run, built from the default parameters
InitSimVars ==
    /\ parameters_ = DefaultParameters
    /\ built = "yes"
    /\ scenarioGenerator_ = NoGenerator
    /\ prevUpdate = NoUpdate
    /\ volCurves_ = ConstructVolCurves(DefaultParameters)

InitCallVars ==
    /\ cubeCall = NoCall
    /\ scenarioWriter = NoWriter
    /\ src_ = NoSource
    /\ consumer = NoConsumer
    /\ InitSimVars
    /\ InitLoaderVars

NoOutput == [open |-> <<>>, last |-> "", stray |-> FALSE]

\* generateNPVCube at the call of buildCube: the market of the configured
\* currencies with the sink attached, the portfolio and the empty cube
Init ==
    /\ InitMarketVars(ParamCcys, ParamFxCcyPairs, {"None"})
    /\ asd_ = TRUE
    /\ InitEngineVars
    /\ rpc = "buildCube"
    /\ simulate_ = TRUE
    /\ xva_ = FALSE
    /\ writeDIMReport_ = FALSE
    /\ sensitivity_ = FALSE
    /\ stress_ = FALSE
    /\ parametricVar_ = FALSE
    /\ writeBaseScenario_ = FALSE
    /\ out_ = NoOutput
    /\ ret = <<>>
    /\ raised = "none"
    /\ steps = <<>>
    /\ portfolioSize = NumTrades
    /\ scenarioData_ = NewScenarioData(NumDates, NumSamples)
    /\ cubeFromFile = FALSE
    /\ cubeFile = NoFile
    /\ savedCube = NoCube
    /\ InitCallVars
    /\ legacy = FALSE

Next == EngineUpdate \/ PriceTrade \/ PriceFails

Spec == Init /\ [][Next]_vars

----------------------------------------------------------------------------
(* NPVCube: set, save and load of the single precision in-memory cubes *)

MaxSets == 1

\* values are counted in units of double precision; a single precision
\* number is a multiple of Ulp
Ulp == 2

RawValues == {3, 5}

\* double to float
ToSingle(x) == (x \div Ulp) * Ulp

\* a float as its word in the file, and back
Encode(v) == v \div Ulp
Decode(w) == w * Ulp

\* the index maps knowing the trade ids only
ResolvesTradeOnly(c, cell) == cell[1] \in 1..c.ids

\* the index maps built at construction resolve the trade id and the date
Resolves(c, cell) ==
    /\ cell[1] \in 1..c.ids
    /\ cell[2] \in 1..c.dates

\* get(id, date, sample, depth)
Get(c, cell) == c.data[cell]

\* set writing the value at every depth of the trade, date and sample
SetAllDepths(c, cell, value) ==
    [c EXCEPT !.data = [x \in DOMAIN @ |->
        IF <<x[1], x[2], x[3]>> = <<cell[1], cell[2], cell[3]>> THEN ToSingle(value) ELSE @[x]]]

\* set(value, id, date, sample, depth): the cell keeps the value as a float
Set(c, cell, value) == [c EXCEPT !.data[cell] = ToSingle(value)]

\* place of a cell in the payload: trades outermost, depth innermost
PayloadIndex(c, cell) ==
    (((cell[1] - 1) * c.dates + (cell[2] - 1)) * c.samples + cell[3]) * c.depth + cell[4] + 1

\* the reader walking samples before dates
CellAtSamplesFirst(h, n) ==
    LET k == (n - 1) % h.depth
        m1 == (n - 1) \div h.depth
        d == m1 % h.dates
        m2 == m1 \div h.dates
    IN <<(m2 \div h.samples) + 1, d + 1, m2 % h.samples, k>>

\* the cell the n-th word of the payload belongs to, from the header alone
CellAt(h, n) ==
    LET k == (n - 1) % h.depth
        m1 == (n - 1) \div h.depth
        s == m1 % h.samples
        m2 == m1 \div h.samples
    IN <<(m2 \div h.dates) + 1, (m2 % h.dates) + 1, s, k>>

\* save: as-of date, trade ids, date grid, sample count, depth, dense payload
Save(c) ==
    [asof |-> AsOf,
     ids |-> [i \in 1..c.ids |-> i],
     dates |-> [d \in 1..c.dates |-> d],
     samples |-> c.samples,
     depth |-> c.depth,
     payload |-> [n \in 1..(c.ids * c.dates * c.samples * c.depth) |->
                    Encode(c.data[CHOOSE cell \in DOMAIN c.data : PayloadIndex(c, cell) = n])]]

\* load: dimensions from the header, cells from the payload
Load(f) ==
    LET h == [ids |-> Len(f.ids), dates |-> Len(f.dates), samples |-> f.samples,
              depth |-> f.depth]
    IN [ids |-> h.ids, dates |-> h.dates, samples |-> h.samples, depth |-> h.depth,
        data |-> [cell \in CubeCells(h.ids, h.dates, h.samples, h.depth) |->
                    Decode(f.payload[CHOOSE n \in 1..Len(f.payload) : CellAt(h, n) = cell])]]

----------------------------------------------------------------------------
(* OREApp::run, in the int run() revision and in the older void run() one *)

\* out_ << setw(tab_) << left << label: the label waits for its status
Label(o, l) == [o EXCEPT !.open = Append(@, l)]

\* out_ << "OK" / "SKIP" << endl: the status of the label printed last
Status(o, text) ==
    [open |-> IF o.open = <<>> THEN <<>> ELSE SubSeq(o.open, 1, Len(o.open) - 1),
     last |-> text,
     stray |-> o.stray \/ o.open = <<>>]

\* out_ << "Error: " << e.what(): the status of every label still waiting
ErrorMessage(o) == [open |-> <<>>, last |-> "Error", stray |-> o.stray]

\* the catch block of int run(): report and return 1
Catch(step, o) ==
    /\ rpc' = "done"
    /\ ret' = <<1>>
    /\ raised' = step
    /\ out_' = ErrorMessage(o)
    /\ steps' = steps

\* the catch block of void run(): report and fall through to the end of run
CatchLegacy(step, o) ==
    /\ rpc' = "return"
    /\ ret' = ret
    /\ raised' = step
    /\ out_' = ErrorMessage(o)
    /\ steps' = steps

\* step threw after the console reached o
Throw(step, o) == IF legacy THEN CatchLegacy(step, o) ELSE Catch(step, o)

\* step completed with the console at o; run goes on at next
Completed(step, o, next) ==
    /\ rpc' = next
    /\ out_' = o
    /\ steps' = Append(steps, step)
    /\ UNCHANGED <<ret, raised>>

\* the else branch of a step: SKIP after its label
Skipped(o, next) ==
    /\ rpc' = next
    /\ out_' = Status(o, "SKIP")
    /\ UNCHANGED <<ret, raised, steps>>

setupVars == <<simulate_, xva_, writeDIMReport_, sensitivity_, stress_, parametricVar_,
               writeBaseScenario_, continueOnError_, legacy>>
idleEngineVars == <<pc, dateIdx, sample, tradeIdx, writes, failAt, errors, updates, priced>>
idleMarketVars == <<simData_, numeraire_, om, updatesEnabled, refreshes, fixingDate, asdPos,
                    asdData, scenario, setCount, updateResult,
                updateTrace>>
fileVars == <<cubeFile, savedCube>>
cubeVars == <<cube_, cubeDepth_, cubeFromFile, scenarioData_, asd_, evaluationDate>>
idleVars == <<setupVars, idleEngineVars, idleMarketVars, callVars>>

\* void run(): getConventions has a line of its own
RunConventions ==
    /\ rpc = "conventions"
    /\ \E throws \in BOOLEAN :
         LET o1 == Label(out_, "Conventions")
         IN IF throws THEN Throw("conventions", o1)
            ELSE Completed("conventions", Status(o1, "OK"), "market")
    /\ UNCHANGED <<idleVars, cubeVars, fileVars, portfolioSize>>

\* int run(): buildMarket prints "Curve configuration" and "Market data
\* loader" only for the files configured
RunMarket ==
    /\ rpc = "market"
    /\ ~legacy
    /\ \E curveConfigFile \in BOOLEAN, marketDataFile \in BOOLEAN,
          throwsAt \in {"none", "curveConfig", "market"} :
         LET o1 == Label(out_, "Market")
             o2 == IF curveConfigFile THEN Label(o1, "Curve configuration") ELSE o1
             o3 == IF curveConfigFile THEN Status(o2, "OK") ELSE o1
             o4 == IF marketDataFile
                   THEN Status(Label(o3, "Market data loader"), "OK") ELSE o3
         IN IF throwsAt = "curveConfig" THEN Throw("market", o2)
            ELSE IF throwsAt = "market" THEN Throw("market", o4)
            ELSE Completed("market", Status(o4, "OK"), "engineFactory")
    /\ UNCHANGED <<idleVars, cubeVars, fileVars, portfolioSize>>

\* void run(): buildMarket prints both lines always, the loader first
RunMarketLegacy ==
    /\ rpc = "market"
    /\ legacy
    /\ \E throwsAt \in {"none", "loader", "curveConfig", "market"} :
         LET o1 == Label(out_, "Market")
             o2 == Label(o1, "Market data loader")
             o3 == Label(Status(o2, "OK"), "Curve configuration")
             o4 == Status(o3, "OK")
         IN IF throwsAt = "loader" THEN Throw("market", o2)
            ELSE IF throwsAt = "curveConfig" THEN Throw("market", o3)
            ELSE IF throwsAt = "market" THEN Throw("market", o4)
            ELSE Completed("market", Status(o4, "OK"), "engineFactory")
    /\ UNCHANGED <<idleVars, cubeVars, fileVars, portfolioSize>>

RunEngineFactory ==
    /\ rpc = "engineFactory"
    /\ \E throws \in BOOLEAN :
         LET o1 == Label(out_, "Engine factory")
         IN IF throws THEN Throw("engineFactory", o1)
            ELSE Completed("engineFactory", Status(o1, "OK"), "portfolio")
    /\ UNCHANGED <<idleVars, cubeVars, fileVars, portfolioSize>>

RunPortfolio ==
    /\ rpc = "portfolio"
    /\ \E throws \in BOOLEAN, size \in 1..NumTrades :
         LET o1 == Label(out_, "Portfolio")
         IN IF throws
            THEN Throw("portfolio", o1) /\ UNCHANGED portfolioSize
            ELSE Completed("portfolio", Status(o1, "OK"), "initialReports")
                 /\ portfolioSize' = size
    /\ UNCHANGED <<idleVars, cubeVars, fileVars>>

\* one report of writeInitialReports: label, then OK or SKIP
ReportLine(o, l, active) == Status(Label(o, l), IF active THEN "OK" ELSE "SKIP")

\* writeInitialReports between "Write Reports... " and its OK
RunInitialReports ==
    /\ rpc = "initialReports"
    /\ \E curves \in BOOLEAN, npv \in BOOLEAN, cashflow \in BOOLEAN,
          throwsAt \in {"none", "curves", "npv", "cashflow"} :
         LET o1 == Label(out_, "Write Reports")
             o2 == ReportLine(o1, "Curve Report", curves)
             o3 == ReportLine(o2, "NPV Report", npv)
             o4 == ReportLine(o3, "Cashflow Report", cashflow)
         IN IF throwsAt = "curves" /\ curves
            THEN Throw("initialReports", Label(o1, "Curve Report"))
            ELSE IF throwsAt = "npv" /\ npv
            THEN Throw("initialReports", Label(o2, "NPV Report"))
            ELSE IF throwsAt = "cashflow" /\ cashflow
            THEN Throw("initialReports", Label(o3, "Cashflow Report"))
            ELSE Completed("initialReports", Status(o4, "OK"),
                           IF legacy THEN "simulation" ELSE "baseScenario")
    /\ UNCHANGED <<idleVars, cubeVars, fileVars, portfolioSize>>

\* a step behind a switch that prints its label on either branch
SwitchedStep(here, configured, label, skipLabel, next) ==
    /\ rpc = here
    /\ IF configured
       THEN \E throws \in BOOLEAN :
               IF throws THEN Throw(here, Label(out_, label))
               ELSE Completed(here, Status(Label(out_, label), "OK"), next)
       ELSE Skipped(Label(out_, skipLabel), next)
    /\ UNCHANGED <<idleVars, cubeVars, fileVars, portfolioSize>>

RunBaseScenario ==
    SwitchedStep("baseScenario", writeBaseScenario_, "Write Base Scenario",
                 "Write Base Scenario", "sensitivity")

RunSensitivity ==
    SwitchedStep("sensitivity", sensitivity_, "Sensitivity Report", "Sensitivity", "stress")

RunStressTest ==
    SwitchedStep("stress", stress_, "Stress Test Report", "Stress testing", "parametricVar")

RunParametricVar ==
    SwitchedStep("parametricVar", parametricVar_, "Parametric VaR Report", "Parametric VaR",
                 "simulation")

\* generateNPVCube up to initCube: market, portfolio, sink and cube of the
\* simulation; without simulation the "Simulation... SKIP" line of run
RunSimulationSetup ==
    /\ rpc = "simulation"
    /\ IF ~simulate_
       THEN /\ Skipped(Label(out_, "Simulation"), "xva")
            /\ UNCHANGED cubeVars
       ELSE \E throws \in BOOLEAN, simSize \in 1..NumTrades, storeFlows \in BOOLEAN,
               gridSize \in 1..NumDates, samples_ \in 1..NumSamples :
              LET o1 == Label(out_, "Simulation Setup")
                  o2 == Status(Label(Status(o1, "OK"), "Aggregation Scenario Data"), "OK")
                  depth == IF storeFlows THEN 2 ELSE 1
              IN IF throws \/ simSize # portfolioSize
                 THEN /\ Throw("simulation", o1)
                      /\ UNCHANGED cubeVars
                 ELSE /\ Completed("simulation", o2, "buildCube")
                      /\ cubeDepth_' = depth
                      /\ scenarioData_' = NewScenarioData(gridSize, samples_)
                      /\ asd_' = TRUE
                      /\ cube_' = InitCube(simSize, gridSize, samples_, depth)
                      /\ UNCHANGED <<cubeFromFile, evaluationDate>>
    /\ UNCHANGED <<idleVars, fileVars, portfolioSize>>

\* buildNPVCube: the progress bar prints the label, the engine fills the cube
\* or a failing update or pricing call throws out of buildCube
RunBuildCube ==
    /\ rpc = "buildCube"
    /\ \E throws \in BOOLEAN :
         LET o1 == Label(out_, "Build Cube")
         IN IF throws
            THEN /\ Throw("buildCube", o1)
                 /\ UNCHANGED cube_
            ELSE /\ Completed("buildCube", Status(o1, "OK"), "writeCube")
                 /\ cube_' = [cube_ EXCEPT !.data = [c \in DOMAIN @ |-> CalculatorValue]]
    /\ \E d \in {AsOf} \cup Dates : evaluationDate' = d
    /\ UNCHANGED <<idleVars, fileVars, portfolioSize, cubeDepth_, cubeFromFile,
                   scenarioData_, asd_>>

RunWriteCube ==
    /\ rpc = "writeCube"
    /\ \E configured \in BOOLEAN, throws \in BOOLEAN :
         LET o1 == Label(out_, "Write Cube")
         IN IF configured /\ ~throws
            THEN /\ Completed("writeCube", Status(o1, "OK"), "writeScenarioData")
                 /\ cubeFile' = Save(cube_)
                 /\ savedCube' = cube_
            ELSE /\ IF configured THEN Throw("writeCube", o1)
                    ELSE Skipped(o1, "writeScenarioData")
                 /\ UNCHANGED fileVars
    /\ UNCHANGED <<idleVars, cubeVars, portfolioSize>>

\* int run(): the binary output prints OK, the csv output prints nothing,
\* SKIP is printed when neither is configured
RunWriteScenarioData ==
    /\ rpc = "writeScenarioData"
    /\ ~legacy
    /\ \E fileName \in BOOLEAN, dump \in BOOLEAN, throwsAt \in {"none", "save", "dump"} :
         LET o1 == Label(out_, "Write Aggregation Scenario Data")
             o2 == IF fileName THEN Status(o1, "OK") ELSE o1
             skipped == ~fileName /\ ~dump
         IN IF throwsAt = "save" /\ fileName THEN Throw("writeScenarioData", o1)
            ELSE IF throwsAt = "dump" /\ dump THEN Throw("writeScenarioData", o2)
            ELSE IF skipped THEN Skipped(o2, "xva")
            ELSE Completed("writeScenarioData", o2, "xva")
    /\ UNCHANGED <<idleVars, cubeVars, fileVars, portfolioSize>>

\* void run(): one output, OK or SKIP
RunWriteScenarioDataLegacy ==
    /\ rpc = "writeScenarioData"
    /\ legacy
    /\ \E fileName \in BOOLEAN, throws \in BOOLEAN :
         LET o1 == Label(out_, "Write Aggregation Scenario Data")
         IN IF fileName
            THEN IF throws THEN Throw("writeScenarioData", o1)
                 ELSE Completed("writeScenarioData", Status(o1, "OK"), "xva")
            ELSE Skipped(o1, "xva")
    /\ UNCHANGED <<idleVars, cubeVars, fileVars, portfolioSize>>

\* the cube files loadCube may find
CubeFiles ==
    { Save(NewCube(ids, dates, samples, depth)) :
        ids \in 1..NumTrades, dates \in 1..NumDates, samples \in 1..NumSamples,
        depth \in {1, 2} }

\* loadCube: an empty cube of the class xva/hyperCube selects
EmptyCube(hyperCube) == NewCube(0, 0, 0, IF hyperCube THEN 2 ELSE 1)

\* loadScenarioData: dimensions from the file
LoadScenarioData(dates, samples) ==
    [dimDates |-> dates, dimSamples |-> samples, fromFile |-> TRUE, null |-> FALSE]

\* first cross-check of the XVA stage
CubeMatchesPortfolio(c, size) == c.ids = size

\* the sample count of the scenario data left unchecked
ScenarioDataMatchesCubeDates(sd, c) == sd.dimDates = c.dates

\* second and third cross-check of the XVA stage
ScenarioDataMatchesCube(sd, c) ==
    /\ sd.dimDates = c.dates
    /\ sd.dimSamples = c.samples

\* "Aggregation and XVA Reports... ": SKIP, or the cube (loaded if there is
\* none) checked against the portfolio
RunXvaCube ==
    /\ rpc = "xva"
    /\ LET o1 == Label(out_, "Aggregation and XVA Reports")
           Check(c) == IF CubeMatchesPortfolio(c, portfolioSize)
                       THEN Completed("cubeCheck", o1, "xvaScenarioData")
                       ELSE Throw("cubeCheck", o1)
       IN IF ~xva_
          THEN /\ Skipped(o1, "return")
               /\ UNCHANGED cubeVars
          ELSE /\ evaluationDate' = AsOf
               /\ UNCHANGED <<scenarioData_, asd_>>
               /\ IF cube_ = NoCube
                  THEN \E file \in CubeFiles, hyperCube \in BOOLEAN, throws \in BOOLEAN :
                         /\ cubeDepth_' = IF hyperCube THEN 2 ELSE 1
                         /\ cubeFromFile' = TRUE
                         /\ IF throws
                            THEN /\ cube_' = EmptyCube(hyperCube)
                                 /\ Throw("loadCube", o1)
                            ELSE /\ cube_' = Load(file)
                                 /\ Check(cube_')
                  ELSE /\ UNCHANGED <<cube_, cubeDepth_, cubeFromFile>>
                       /\ Check(cube_)
    /\ UNCHANGED <<idleVars, fileVars, portfolioSize>>

\* the scenario data (loaded if there is none) checked against the cube
RunXvaScenarioData ==
    /\ rpc = "xvaScenarioData"
    /\ LET Check(sd) == IF ScenarioDataMatchesCube(sd, cube_)
                        THEN Completed("scenarioDataCheck", out_, "postProcess")
                        ELSE Throw("scenarioDataCheck", out_)
       IN IF scenarioData_.null
          THEN \E dates \in 1..NumDates, samples \in 1..NumSamples, throws \in BOOLEAN :
                 IF throws
                 THEN /\ scenarioData_' = LoadScenarioData(0, 0)
                      /\ Throw("loadScenarioData", out_)
                 ELSE /\ scenarioData_' = LoadScenarioData(dates, samples)
                      /\ Check(scenarioData_')
          ELSE /\ UNCHANGED scenarioData_
               /\ Check(scenarioData_)
    /\ UNCHANGED <<idleVars, fileVars, portfolioSize, cube_, cubeDepth_, cubeFromFile,
                   asd_, evaluationDate>>

\* runPostProcessor and the OK of the aggregation line
RunPostProcessor ==
    /\ rpc = "postProcess"
    /\ \E throws \in BOOLEAN :
         IF throws THEN Throw("postProcess", out_)
         ELSE Completed("postProcess", Status(out_, "OK"), "xvaReports")
    /\ UNCHANGED <<idleVars, cubeVars, fileVars, portfolioSize>>

\* writeXVAReports and writeDIMReport between "Write Reports... " and OK
RunXvaReports ==
    /\ rpc = "xvaReports"
    /\ \E throwsAt \in {"none", "xva", "dim"} :
         LET o1 == Label(out_, "Write Reports")
         IN IF throwsAt = "xva" \/ (throwsAt = "dim" /\ writeDIMReport_)
            THEN Throw("xvaReports", o1)
            ELSE Completed("xvaReports", Status(o1, "OK"), "return")
    /\ UNCHANGED <<idleVars, cubeVars, fileVars, portfolioSize>>

\* int run() past the try block: return 0
RunReturn ==
    /\ rpc = "return"
    /\ ~legacy
    /\ rpc' = "done"
    /\ ret' = <<0>>
    /\ UNCHANGED <<out_, raised, steps, idleVars, cubeVars, fileVars, portfolioSize>>

\* void run() past the try block and past the catch block: no status
RunReturnLegacy ==
    /\ rpc = "return"
    /\ legacy
    /\ rpc' = "done"
    /\ UNCHANGED <<ret, out_, raised, steps, idleVars, cubeVars, fileVars,
                   portfolioSize>>

\* the application before run: switches as readSetup may set them, no cube,
\* no scenario data, nothing printed
InitRun ==
    /\ InitMarketVars(ParamCcys, ParamFxCcyPairs, {"None"})
    /\ asd_ = FALSE
    /\ pc = "idle"
    /\ dateIdx = 1
    /\ sample = 0
    /\ tradeIdx = 1
    /\ cubeDepth_ = 0
    /\ cube_ = NoCube
    /\ writes = <<>>
    /\ failAt = <<>>
    /\ continueOnError_ = FALSE
    /\ errors = {}
    /\ updates = <<>>
    /\ priced = <<>>
    /\ legacy \in BOOLEAN
    /\ rpc = IF legacy THEN "conventions" ELSE "market"
    /\ simulate_ \in BOOLEAN
    /\ xva_ \in BOOLEAN
    /\ writeDIMReport_ \in (IF xva_ THEN BOOLEAN ELSE {FALSE})
    /\ sensitivity_ \in (IF legacy THEN {FALSE} ELSE BOOLEAN)
    /\ stress_ \in (IF legacy THEN {FALSE} ELSE BOOLEAN)
    /\ parametricVar_ \in (IF legacy THEN {FALSE} ELSE BOOLEAN)
    /\ writeBaseScenario_ \in (IF legacy THEN {FALSE} ELSE BOOLEAN)
    /\ out_ = NoOutput
    /\ ret = <<>>
    /\ raised = "none"
    /\ steps = <<>>
    /\ portfolioSize = 0
    /\ scenarioData_ = NoScenarioData
    /\ cubeFromFile = FALSE
    /\ cubeFile = NoFile
    /\ savedCube = NoCube
    /\ InitCallVars

NextRun ==
    \/ RunConventions \/ RunMarket \/ RunMarketLegacy \/ RunEngineFactory
    \/ RunPortfolio \/ RunInitialReports \/ RunBaseScenario \/ RunSensitivity
    \/ RunStressTest \/ RunParametricVar \/ RunSimulationSetup \/ RunBuildCube
    \/ RunWriteCube \/ RunWriteScenarioData \/ RunWriteScenarioDataLegacy
    \/ RunXvaCube \/ RunXvaScenarioData \/ RunPostProcessor \/ RunXvaReports
    \/ RunReturn \/ RunReturnLegacy

SpecRun == InitRun /\ [][NextRun]_vars

----------------------------------------------------------------------------
(* A cube written to, saved and loaded back *)

ioIdleVars == <<idleMarketVars, asd_, evaluationDate, pc, dateIdx, sample, tradeIdx, failAt,
                errors, updates, priced, setupVars, out_, ret, raised, steps, portfolioSize,
                scenarioData_, callVars>>

\* the cells set so far
CellsSet == { c \in DOMAIN writes : writes[c] > 0 }

\* cube_->set on a cell not set before
NpvCubeSet ==
    /\ rpc = "cubeSet"
    /\ Cardinality(CellsSet) < MaxSets
    /\ \E cell \in DOMAIN cube_.data \ CellsSet, value \in RawValues :
         /\ cube_' = Set(cube_, cell, value)
         /\ writes' = [writes EXCEPT ![cell] = @ + 1]
    /\ UNCHANGED <<rpc, cubeDepth_, cubeFromFile, fileVars, ioIdleVars>>

\* cube_->save(cubeFileName)
NpvCubeSave ==
    /\ rpc = "cubeSet"
    /\ cubeFile' = Save(cube_)
    /\ savedCube' = cube_
    /\ rpc' = "cubeSaved"
    /\ UNCHANGED <<cube_, writes, cubeDepth_, cubeFromFile, ioIdleVars>>

\* loadCube: a fresh cube object reading the file back
NpvCubeLoad ==
    /\ rpc = "cubeSaved"
    /\ \E hyperCube \in BOOLEAN : cubeDepth_' = IF hyperCube THEN 2 ELSE 1
    /\ cube_' = Load(cubeFile)
    /\ cubeFromFile' = TRUE
    /\ rpc' = "cubeLoaded"
    /\ UNCHANGED <<writes, fileVars, ioIdleVars>>

\* a cube of any dimensions as initCube makes it
InitCubeIO ==
    /\ InitMarketVars(ParamCcys, ParamFxCcyPairs, {"None"})
    /\ asd_ = FALSE
    /\ pc = "idle"
    /\ dateIdx = 1
    /\ sample = 0
    /\ tradeIdx = 1
    /\ cubeDepth_ \in {1, 2}
    /\ \E ids \in 1..NumTrades, dates \in 1..NumDates, samples \in 1..NumSamples :
         cube_ = InitCube(ids, dates, samples, cubeDepth_)
    /\ writes = [c \in DOMAIN cube_.data |-> 0]
    /\ failAt = <<>>
    /\ continueOnError_ = FALSE
    /\ errors = {}
    /\ updates = <<>>
    /\ priced = <<>>
    /\ legacy = FALSE
    /\ rpc = "cubeSet"
    /\ simulate_ = TRUE
    /\ xva_ = FALSE
    /\ writeDIMReport_ = FALSE
    /\ sensitivity_ = FALSE
    /\ stress_ = FALSE
    /\ parametricVar_ = FALSE
    /\ writeBaseScenario_ = FALSE
    /\ out_ = NoOutput
    /\ ret = <<>>
    /\ raised = "none"
    /\ steps = <<>>
    /\ portfolioSize = cube_.ids
    /\ scenarioData_ = NoScenarioData
    /\ cubeFromFile = FALSE
    /\ cubeFile = NoFile
    /\ savedCube = NoCube
    /\ InitCallVars

NextCubeIO == NpvCubeSet \/ NpvCubeSave \/ NpvCubeLoad

SpecCubeIO == InitCubeIO /\ [][NextCubeIO]_vars

----------------------------------------------------------------------------
(* A cube requested with any depth, then written to and read through set / get *)

MaxDepth == 3

\* the valid coordinates callers pass: the first cell, the last cell and the
\* depth-0 cell of the last trade, date and sample
CallCells(c) ==
    { <<1, 1, 0, 0>>, <<c.ids, c.dates, c.samples - 1, 0>>,
      <<c.ids, c.dates, c.samples - 1, c.depth - 1>> }

\* the invalid ones: an id the cube does not know, a date the grid does not hold
UnknownCells(c) == { <<c.ids + 1, c.dates, 0, 0>>, <<c.ids, c.dates + 1, 0, 0>> }

\* initCube with cubeDepth_ as requested
CubeInitCall ==
    /\ rpc = "cubeInit"
    /\ \E depth \in 0..MaxDepth :
         /\ cubeDepth_' = depth
         /\ cube_' = InitCube(NumTrades, NumDates, NumSamples, depth)
    /\ writes' = [c \in DOMAIN cube_'.data |-> 0]
    /\ cubeCall' = [NoCall EXCEPT !.op = "initCube",
                                  !.result = IF cube_' = NoCube THEN "UnsupportedCubeDepth"
                                             ELSE "ok"]
    /\ rpc' = IF cube_' = NoCube THEN "cubeFailed" ELSE "cubeUse"
    /\ UNCHANGED <<cubeFromFile, fileVars, idleMarketVars, asd_, evaluationDate, pc, dateIdx,
                   sample, tradeIdx, failAt, errors, updates, priced, setupVars, out_, ret,
                   raised, steps, portfolioSize, scenarioData_, writerVars, simVars, loaderVars>>

\* cube_->set(value, id, date, sample, depth)
CubeSetCall ==
    /\ rpc = "cubeUse"
    /\ \E cell \in CallCells(cube_) \cup UnknownCells(cube_), value \in RawValues :
         /\ cell \in DOMAIN writes => writes[cell] <= MaxSets
         /\ IF Resolves(cube_, cell)
            THEN /\ cube_' = Set(cube_, cell, value)
                 /\ writes' = [c \in DOMAIN writes |->
                                 IF c = cell THEN writes[c] + 1 ELSE writes[c]]
            ELSE UNCHANGED <<cube_, writes>>
         /\ cubeCall' = [op |-> "set", cell |-> cell, value |-> value,
                         result |-> IF Resolves(cube_, cell) THEN "ok"
                                    ELSE "UnknownCoordinate",
                         got |-> 0]
    /\ UNCHANGED <<rpc, cubeDepth_, cubeFromFile, fileVars, idleMarketVars, asd_,
                   evaluationDate, pc, dateIdx, sample, tradeIdx, failAt, errors, updates,
                   priced, setupVars, out_, ret, raised, steps, portfolioSize, scenarioData_,
                   writerVars, simVars, loaderVars>>

\* cube_->get(id, date, sample, depth)
CubeGetCall ==
    /\ rpc = "cubeUse"
    /\ \E cell \in CallCells(cube_) \cup UnknownCells(cube_) :
         cubeCall' = [op |-> "get", cell |-> cell, value |-> 0,
                      result |-> IF Resolves(cube_, cell) THEN "ok" ELSE "UnknownCoordinate",
                      got |-> IF Resolves(cube_, cell) THEN Get(cube_, cell) ELSE 0]
    /\ UNCHANGED <<rpc, cube_, writes, cubeDepth_, cubeFromFile, fileVars, idleMarketVars,
                   asd_, evaluationDate, pc, dateIdx, sample, tradeIdx, failAt, errors,
                   updates, priced, setupVars, out_, ret, raised, steps, portfolioSize,
                   scenarioData_, writerVars, simVars, loaderVars>>

\* the application before initCube
InitCubeCalls ==
    /\ InitMarketVars(ParamCcys, ParamFxCcyPairs, {"None"})
    /\ asd_ = FALSE
    /\ pc = "idle"
    /\ dateIdx = 1
    /\ sample = 0
    /\ tradeIdx = 1
    /\ cubeDepth_ = 0
    /\ cube_ = NoCube
    /\ writes = <<>>
    /\ failAt = <<>>
    /\ continueOnError_ = FALSE
    /\ errors = {}
    /\ updates = <<>>
    /\ priced = <<>>
    /\ legacy = FALSE
    /\ rpc = "cubeInit"
    /\ simulate_ = TRUE
    /\ xva_ = FALSE
    /\ writeDIMReport_ = FALSE
    /\ sensitivity_ = FALSE
    /\ stress_ = FALSE
    /\ parametricVar_ = FALSE
    /\ writeBaseScenario_ = FALSE
    /\ out_ = NoOutput
    /\ ret = <<>>
    /\ raised = "none"
    /\ steps = <<>>
    /\ portfolioSize = NumTrades
    /\ scenarioData_ = NewScenarioData(NumDates, NumSamples)
    /\ cubeFromFile = FALSE
    /\ cubeFile = NoFile
    /\ savedCube = NoCube
    /\ InitCallVars

NextCube == CubeInitCall \/ CubeSetCall \/ CubeGetCall

SpecCube == InitCubeCalls /\ [][NextCube]_vars

----------------------------------------------------------------------------
(* ScenarioWriter: a generator wrapped for the scenario dump *)

MaxCalls == 3

\* the keys the wrapped generator may be built for: the first n keys of the
\* key universe in some fixed order
KeyOrder ==
    CHOOSE q \in [1..Cardinality(ScenarioKeyUniverse) -> ScenarioKeyUniverse] :
        \A i, j \in DOMAIN q : i # j => q[i] # q[j]

SourceKeyLists ==
    { SubSeq(KeyOrder, 1, n) : n \in 0..MaxScenarioKeys } \cap KeySeqs

\* the orders in which a scenario may list the keys: as built, or reversed
Orders(ks) == { ks, [i \in 1..Len(ks) |-> ks[Len(ks) + 1 - i]] }

\* a value as the text of its field
FormatValue(x) == [text |-> x]

\* the header row: the date column and the key names
HeaderRow(keys) == [kind |-> "header", fields |-> <<"Date">> \o keys]

\* a data row with the values in the order the scenario lists its keys
DataRowScenarioOrder(keys, d, sc) ==
    [kind |-> "data",
     fields |-> <<d>> \o [i \in 1..Len(sc.keys) |-> FormatValue(ScenarioGet(sc, sc.keys[i]))]]

\* a data row: the date, then the value of every key of keys_ in that order
DataRow(keys, d, sc) ==
    [kind |-> "data",
     fields |-> <<d>> \o [i \in 1..Len(keys) |-> FormatValue(ScenarioGet(sc, keys[i]))]]

\* next handing out a scenario rebuilt in the order of the columns
WriterReturnInColumnOrder(keys, sc) == [sc EXCEPT !.keys = keys]

\* what next returns: the scenario of the wrapped generator itself
WriterReturn(keys, sc) == sc

\* ScenarioWriter::next(d): ask src_, on the first call keep the keys and
\* write the header if asked to, write the row, return the scenario
WriterNext ==
    /\ rpc = "dump"
    /\ scenarioWriter.i_ < MaxCalls
    /\ \E d \in Dates, ks \in Orders(src_.keys), v \in Values :
         LET sc == GenScenario(ks, v)
             first == scenarioWriter.i_ = 0
             keys == IF first THEN sc.keys ELSE scenarioWriter.keys_
             file1 == IF first /\ scenarioWriter.header
                      THEN Append(scenarioWriter.file, HeaderRow(keys))
                      ELSE scenarioWriter.file
         IN /\ src_' = [src_ EXCEPT !.asked = Append(@, d), !.produced = Append(@, sc)]
            /\ scenarioWriter' = [scenarioWriter EXCEPT
                                    !.keys_ = keys,
                                    !.i_ = @ + 1,
                                    !.file = Append(file1, DataRow(keys, d, sc))]
            /\ consumer' = [asked |-> Append(consumer.asked, d),
                            got |-> Append(consumer.got, WriterReturn(keys, sc))]
    /\ UNCHANGED <<marketVars, engineVars, cubeCall, rpc, setupVars, out_, ret, raised, steps,
                   portfolioSize, scenarioData_, cubeFromFile, fileVars, simVars, loaderVars>>

\* buildScenarioGenerator with simulation/scenariodump configured: a generator
\* of some key list behind a writer with an empty file
InitWriter ==
    /\ InitMarketVars(ParamCcys, ParamFxCcyPairs, {"None"})
    /\ asd_ = FALSE
    /\ pc = "idle"
    /\ dateIdx = 1
    /\ sample = 0
    /\ tradeIdx = 1
    /\ cubeDepth_ = 0
    /\ cube_ = NoCube
    /\ writes = <<>>
    /\ failAt = <<>>
    /\ continueOnError_ = FALSE
    /\ errors = {}
    /\ updates = <<>>
    /\ priced = <<>>
    /\ legacy = FALSE
    /\ rpc = "dump"
    /\ simulate_ = TRUE
    /\ xva_ = FALSE
    /\ writeDIMReport_ = FALSE
    /\ sensitivity_ = FALSE
    /\ stress_ = FALSE
    /\ parametricVar_ = FALSE
    /\ writeBaseScenario_ = FALSE
    /\ out_ = NoOutput
    /\ ret = <<>>
    /\ raised = "none"
    /\ steps = <<>>
    /\ portfolioSize = NumTrades
    /\ scenarioData_ = NoScenarioData
    /\ cubeFromFile = FALSE
    /\ cubeFile = NoFile
    /\ savedCube = NoCube
    /\ cubeCall = NoCall
    /\ \E ks \in SourceKeyLists : src_ = [NoSource EXCEPT !.keys = ks]
    /\ \E h \in BOOLEAN : scenarioWriter = [NoWriter EXCEPT !.header = h]
    /\ consumer = NoConsumer
    /\ InitSimVars
    /\ InitLoaderVars

NextWriter == WriterNext

SpecWriter == InitWriter /\ [][NextWriter]_vars

----------------------------------------------------------------------------
(* ScenarioSimMarket on its own: the constructor, update calls, generator resets *)

MaxUpdates == 3           \* update calls made on one market

IndexParameters ==
    [DefaultParameters EXCEPT !.ccys = {}, !.indices = {"EUR-EURIBOR-6M"},
                              !.additionalScenarioDataIndices = {"EUR-EURIBOR-6M"}]

\* parameters declaring no currency, no pair and no index, without and with a
\* tenor grid; the parameters of the run; parameters with an index
ParameterSets ==
    { [DefaultParameters EXCEPT !.ccys = {}, !.fxCcyPairs = {},
                                !.additionalScenarioDataCcys = {},
                                !.yieldCurveTenors = t] : t \in {<<>>, YieldCurveTenors} }
    \cup {DefaultParameters, IndexParameters}

\* QL_REQUIRE(parameters->yieldCurveTenors().front() > 0 * Days, ...) ahead of the
\* currency loop: front() of an empty vector is undefined, the constructor may
\* return or not
\* the same for defaultTenors().front() inside the default curve loop. The
\* constructor throws when parseDecayMode does not recognise the decay mode of a
\* category that is in scope and not simulated, and when there are equities
\* but no equity tenors
ConstructOutcomes(p) ==
    IF \/ \E cat \in VolCategories :
            /\ p.vol[cat].names # {}
            /\ ~p.vol[cat].simulate
            /\ parseDecayMode(p.vol[cat].decayMode) = "notRecognized"
       \/ p.equityNames # {} /\ p.equityTenors = <<>>
    THEN {"failed"}
    ELSE IF \/ p.yieldCurveTenors = <<>>
            \/ p.defaultNames # {} /\ p.defaultTenors = <<>>
         THEN {"yes", "failed"}
         ELSE {"yes"}

\* the registered keys in the order of the map
BankOrder(keys) ==
    CHOOSE f \in [1..Cardinality(keys) -> keys] : \A i, j \in DOMAIN f : f[i] = f[j] => i = j

ForeignKey == RiskFactorKey("DiscountCurve", "USD", 0)

Reverse(f) == [i \in 1..Len(f) |-> f[Len(f) + 1 - i]]

\* keys() of the scenarios a generator makes for a market of parameters p: the
\* registered keys in either order, one key short, one key repeated in place of
\* another, and a key the market does not register
GeneratorKeyLists(p) ==
    LET b == BankOrder(ConstructKeys(p))
        n == Len(b)
    IN { ks \in { b, Reverse(b), SubSeq(b, 1, n - 1), [i \in 1..n |-> b[1]],
                  Append(SubSeq(b, 1, n - 1), ForeignKey), Append(b, ForeignKey),
                  <<ForeignKey>> \o SubSeq(b, 1, n - 1) } :
           Len(ks) <= MaxScenarioKeys }

\* the draw of the generator's stream at its position for the date asked
GeneratorDrawByCalls(g, d) == 1 + Len(g.asked) * (NumDates + 1) + d

GeneratorDraw(g, d) == 1 + g.pos * (NumDates + 1) + d

\* the scenario at the stream's position: the generator's key lists take turns
GeneratorScenario(g, d) ==
    GenScenario(g.keys[1 + (g.pos % Len(g.keys))], GeneratorDraw(g, d))

\* scenarioGenerator_->next(d): the stream moves on by one
GeneratorNextTwice(g, d) == [g EXCEPT !.pos = @ + 2, !.asked = Append(Append(@, d), d)]

GeneratorNext(g, d) == [g EXCEPT !.pos = @ + 1, !.asked = Append(@, d)]

\* the constructor
MarketConstruct ==
    /\ rpc = "construct"
    /\ \E r \in ConstructOutcomes(parameters_) : built' = r
    /\ simData_' = IF built' = "yes" THEN [k \in ConstructKeys(parameters_) |-> 0]
                   ELSE simData_
    /\ setCount' = [k \in DOMAIN simData_' |-> 0]
    /\ volCurves_' = IF built' = "yes" THEN ConstructVolCurves(parameters_) ELSE volCurves_
    /\ rpc' = IF built' = "yes" THEN "market" ELSE "constructFailed"
    /\ UNCHANGED <<numeraire_, evaluationDate, om, updatesEnabled, refreshes, fixingDate,
                   asd_, asdPos, asdData, scenario, updateResult, updateTrace, engineVars,
                   setupVars,
                   out_, ret, raised, steps, portfolioSize, scenarioData_, cubeFromFile,
                   fileVars, cubeCall, writerVars, parameters_, scenarioGenerator_,
                   prevUpdate, loaderVars>>

\* update(d) called on the market, the scenario coming from scenarioGenerator_
MarketUpdate ==
    /\ rpc = "market"
    /\ Len(updates) < MaxUpdates
    /\ \E d \in Dates :
         /\ Update(d, GeneratorScenario(scenarioGenerator_, d))
         /\ scenarioGenerator_' = GeneratorNext(scenarioGenerator_, d)
         /\ updates' = Append(updates, <<d, scenarioGenerator_.pos>>)
         /\ prevUpdate' = [stage |-> "updated", date |-> d, pos |-> scenarioGenerator_.pos,
                           cells |-> simData_']
    /\ UNCHANGED <<pc, dateIdx, sample, tradeIdx, cubeDepth_, cube_, writes, failAt,
                   continueOnError_, errors, priced, rpc, simulate_, xva_, writeDIMReport_,
                   sensitivity_, stress_, parametricVar_, writeBaseScenario_, legacy, out_,
                   ret, raised, steps, portfolioSize, scenarioData_, cubeFromFile, fileVars,
                   cubeCall, writerVars, parameters_, built, volCurves_, loaderVars>>

\* scenarioGenerator_->reset(): the stream starts again
GeneratorReset ==
    /\ rpc = "market"
    /\ scenarioGenerator_.pos > 0
    /\ scenarioGenerator_' = [scenarioGenerator_ EXCEPT !.pos = 0]
    /\ prevUpdate' = [prevUpdate EXCEPT !.stage = "reset"]
    /\ UNCHANGED <<marketVars, engineVars, rpc, setupVars, out_, ret, raised, steps,
                   portfolioSize, scenarioData_, cubeFromFile, fileVars, cubeCall,
                   writerVars, parameters_, built, volCurves_, loaderVars>>

\* before the market is constructed
InitUnbuilt ==
    /\ built = "no"
    /\ prevUpdate = NoUpdate
    /\ volCurves_ = <<>>
    /\ simData_ = <<>>
    /\ numeraire_ = 0
    /\ evaluationDate = AsOf
    /\ om \in ObservationModes
    /\ updatesEnabled = "enabled"
    /\ refreshes = 0
    /\ fixingDate = AsOf
    /\ asd_ \in BOOLEAN
    /\ asdPos = 0
    /\ asdData = NoAsdRecord
    /\ scenario = NoScenario
    /\ setCount = <<>>
    /\ updateResult = "none"
    /\ updateTrace = <<>>
    /\ pc = "idle"
    /\ dateIdx = 1
    /\ sample = 0
    /\ tradeIdx = 1
    /\ cubeDepth_ = 0
    /\ cube_ = NoCube
    /\ writes = <<>>
    /\ failAt = <<>>
    /\ continueOnError_ = FALSE
    /\ errors = {}
    /\ updates = <<>>
    /\ priced = <<>>
    /\ legacy = FALSE
    /\ rpc = "construct"
    /\ simulate_ = TRUE
    /\ xva_ = FALSE
    /\ writeDIMReport_ = FALSE
    /\ sensitivity_ = FALSE
    /\ stress_ = FALSE
    /\ parametricVar_ = FALSE
    /\ writeBaseScenario_ = FALSE
    /\ out_ = NoOutput
    /\ ret = <<>>
    /\ raised = "none"
    /\ steps = <<>>
    /\ portfolioSize = NumTrades
    /\ scenarioData_ = NoScenarioData
    /\ cubeFromFile = FALSE
    /\ cubeFile = NoFile
    /\ savedCube = NoCube
    /\ cubeCall = NoCall
    /\ scenarioWriter = NoWriter
    /\ src_ = NoSource
    /\ consumer = NoConsumer

\* a generator and the parameters, before the market is constructed
InitMarket ==
    /\ parameters_ \in ParameterSets
    /\ \E ks1, ks2 \in GeneratorKeyLists(parameters_) :
         scenarioGenerator_ = [NoGenerator EXCEPT !.keys = <<ks1, ks2>>]
    /\ InitUnbuilt
    /\ InitLoaderVars

NextMarket == MarketConstruct \/ MarketUpdate \/ GeneratorReset

SpecMarket == InitMarket /\ [][NextMarket]_vars

----------------------------------------------------------------------------
(* The ScenarioSimMarket constructor over parameters with volatilities, *)
(* default curves, securities and equities                                *)

\* the name a category's volatility is declared for
VolName(cat) ==
    IF cat = "FXVolatility" THEN "EURUSD" ELSE IF cat = "EQVolatility" THEN "SP5" ELSE "EUR"

\* a category left out, or in scope with either value of its simulate flag and
\* a decay mode parseDecayMode knows or does not know
VolConfigs(cat) ==
    {NoVol} \cup { [names |-> {VolName(cat)}, simulate |-> sim, decayMode |-> m] :
                     sim \in BOOLEAN, m \in {"ConstantVariance", "Linear"} }

ConstructParameterSets ==
    { [DefaultParameters EXCEPT !.vol = v, !.yieldCurveNames = y, !.securities = sec,
                                !.defaultNames = dn, !.equityNames = eq] :
        v \in { f \in [VolCategories -> UNION { VolConfigs(c) : c \in VolCategories }] :
                  \A c \in VolCategories : f[c] \in VolConfigs(c) },
        y \in {{}, {"BENCHMARK_EUR"}}, sec \in {{}, {"SECURITY_1"}},
        dn \in {{}, {"CPTY_A"}}, eq \in {{}, {"SP5"}} }

InitConstruct ==
    /\ parameters_ \in ConstructParameterSets
    /\ scenarioGenerator_ = NoGenerator
    /\ InitUnbuilt
    /\ InitLoaderVars

NextConstruct == MarketConstruct

SpecConstruct == InitConstruct /\ [][NextConstruct]_vars

----------------------------------------------------------------------------
(* Properties of update and buildCube, checked under Spec *)

Last(q) == q[Len(q)]

\* the registered cells hold exactly the scenario pulled last
CellsHoldScenario ==
    \A k \in DOMAIN simData_ :
        ScenarioHas(scenario, k) /\ simData_[k] = ScenarioGet(scenario, k)

\* C1: after every update that returns without error, every registered quote
\* cell was set exactly once during the call, to the scenario's value for its
\* key, whatever key sequence the generator supplied (repeated keys included).
C1_EveryCellSetOnce ==
    updateResult = "ok" =>
        /\ \A k \in DOMAIN simData_ : setCount[k] = 1
        /\ CellsHoldScenario

\* the two errors of update under the names the specification gives them
MissingScenarioDataError == "pointsMissing"
ScenarioSizeMismatchError == "sizeMismatch"

ScenarioLacksKey == \E k \in DOMAIN simData_ : ~ScenarioHas(scenario, k)
ScenarioHasUnknownKey == \E k \in Range(scenario.keys) : k \notin DOMAIN simData_

\* C2: a scenario lacking a key of a registered cell (and carrying no unknown
\* key) fails with the missing-scenario-data error, a scenario carrying a key
\* without a registered cell fails with the size-mismatch error, and in both
\* cases update does not return normally.
C2_MismatchClassifiedByCause ==
    updateResult # "none" =>
        /\ (ScenarioLacksKey /\ ~ScenarioHasUnknownKey)
              => updateResult = MissingScenarioDataError
        /\ ScenarioHasUnknownKey => updateResult = ScenarioSizeMismatchError

\* the (date, sample) pairs in date-major, sample-minor order
PairSeq ==
    [i \in 1..(NumDates * NumSamples) |->
        <<((i - 1) \div NumSamples) + 1, (i - 1) % NumSamples>>]

\* C3: buildCube calls market.update(date) once per (date, sample) pair, the
\* dates in grid order and the samples of a date in increasing order, so the
\* calls made so far are a prefix of the date-major enumeration and a complete
\* run has made exactly |dates| x numSamples of them.
C3_UpdatesDateMajor ==
    /\ Len(updates) <= NumDates * NumSamples
    /\ updates = SubSeq(PairSeq, 1, Len(updates))
    /\ updates # <<>> => evaluationDate = Last(updates)[1]
    /\ pc = "done" => updates = PairSeq

C3_Witness == pc = "done" /\ Len(updates) = NumDates * NumSamples /\ NumSamples > 1

\* C4: a calculator is invoked for (date, sample) only after the update of that
\* pair completed and before the next update, and at that moment the quote
\* cells hold exactly the scenario pulled for the pair.
C4_PricingSeesItsScenario ==
    pc = "price" =>
        /\ updates # <<>>
        /\ Last(updates) = <<dateIdx, sample>>
        /\ updateResult = "ok"
        /\ CellsHoldScenario

\* C5: after a complete run without pricing failure every cube cell
\* (trade, date, sample, depth < cubeDepth) was written exactly once and holds
\* the calculator's constant; with the single NPV calculator the cube has
\* shape (numTrades, |dates|, numSamples, 1).
C5_CubeCompletelyWritten ==
    (pc = "done" /\ errors = {}) =>
        /\ DOMAIN cube_.data = Trades \X Dates \X Samples \X (0..(cubeDepth_ - 1))
        /\ <<cube_.ids, cube_.dates, cube_.samples, cube_.depth>>
              = <<NumTrades, NumDates, NumSamples, cubeDepth_>>
        /\ \A c \in DOMAIN cube_.data : writes[c] = 1 /\ cube_.data[c] = CalculatorValue
        /\ Cardinality(Calculators(cubeDepth_)) = 1 => cubeDepth_ = 1

C5_Witness ==
    /\ pc = "done" /\ errors = {} /\ cubeDepth_ = 2
    /\ \A c \in DOMAIN cube_.data : writes[c] = 1 /\ cube_.data[c] = CalculatorValue

PricingFailed == failAt # <<>> /\ failAt \in Range(priced)
AbortedByPricing == pc = "aborted" /\ updateResult = "ok"

----------------------------------------------------------------------------
(* Properties of OREApp::run, checked under SpecRun *)

Executed(step) == step \in Range(steps)

XvaChecks == {"cubeCheck", "scenarioDataCheck"}

\* C7: the post-processor starts only when the cube has as many ids as the
\* portfolio has trades and the scenario data has the cube's number of dates
\* and of samples; when one of the cross-checks fails the run ends with the
\* error reported and neither the post-processor nor the XVA report writers
\* are executed.
C7_PostProcessorAfterChecks ==
    /\ (rpc \in {"postProcess", "xvaReports"} \/ Executed("postProcess")
           \/ Executed("xvaReports")) =>
          /\ cube_.ids = portfolioSize
          /\ scenarioData_.dimDates = cube_.dates
          /\ scenarioData_.dimSamples = cube_.samples
    /\ raised \in XvaChecks =>
          /\ rpc \in {"return", "done"}
          /\ out_.last = "Error"
          /\ ~Executed("postProcess")
          /\ ~Executed("xvaReports")

\* the post-processor has run on a cube and on scenario data read from files
C7_Witness ==
    /\ Executed("postProcess")
    /\ cubeFromFile
    /\ scenarioData_.fromFile
    /\ cube_.ids = portfolioSize

\* C8: when run has ended every step label it printed has got exactly one
\* status after it: OK, SKIP or the error message; no label is left without
\* a status and no status is printed without a label waiting for it.
C8_EveryLabelHasOneStatus ==
    rpc = "done" => (out_.open = <<>> /\ ~out_.stray)

\* the steps the switches ask for
ConfiguredSteps ==
    {"market", "engineFactory", "portfolio", "initialReports"}
    \cup (IF legacy THEN {"conventions"} ELSE {})
    \cup (IF writeBaseScenario_ THEN {"baseScenario"} ELSE {})
    \cup (IF sensitivity_ THEN {"sensitivity"} ELSE {})
    \cup (IF stress_ THEN {"stress"} ELSE {})
    \cup (IF parametricVar_ THEN {"parametricVar"} ELSE {})
    \cup (IF simulate_ THEN {"simulation", "buildCube"} ELSE {})
    \cup (IF xva_ THEN {"cubeCheck", "scenarioDataCheck", "postProcess", "xvaReports"}
          ELSE {})

\* C9: run returns a non-zero status exactly when a step raised an error; a
\* raised error ends the run at once, no later step being executed; and run
\* returns 0 only when every configured step has completed.
C9_ReturnStatusTellsFailure ==
    /\ raised # "none" => (rpc \in {"return", "done"} /\ out_.last = "Error"
                              /\ ~Executed(raised))
    /\ rpc = "done" =>
          /\ (ret # <<>> /\ ret # <<0>>) <=> (raised # "none")
          /\ ret = <<0>> => \A step \in ConfiguredSteps : Executed(step)

----------------------------------------------------------------------------
(* Properties of the cube file, checked under SpecCubeIO *)

Abs(x) == IF x < 0 THEN 0 - x ELSE x

----------------------------------------------------------------------------
(* Properties of the cube under set and get, checked under SpecCube *)

SameDimensions(c1, c2) ==
    /\ c1.ids = c2.ids
    /\ c1.dates = c2.dates
    /\ c1.samples = c2.samples
    /\ c1.depth = c2.depth
    /\ DOMAIN c1.data = DOMAIN c2.data

\* C11: a set at valid coordinates makes get at those coordinates return the
\* value stored (as a float), leaves every other cell as it was and leaves
\* the ids, dates, samples and depth of the cube as they were; a get at valid
\* coordinates returns the content of the cell and changes nothing.
C11_GetReturnsLastSet ==
    [][/\ (cubeCall'.op = "set" /\ cubeCall'.result = "ok") =>
            /\ Get(cube_', cubeCall'.cell) = ToSingle(cubeCall'.value)
            /\ \A c \in DOMAIN cube_.data \ {cubeCall'.cell} : Get(cube_', c) = Get(cube_, c)
            /\ SameDimensions(cube_', cube_)
       /\ (cubeCall'.op = "get" /\ cubeCall'.result = "ok") =>
            /\ cubeCall'.got = Get(cube_, cubeCall'.cell)
            /\ cube_' = cube_
      ]_vars

\* get returns the second of two values set at the same cell of a depth-2
\* cube that holds another value elsewhere
C11_Witness ==
    /\ cubeCall.op = "get"
    /\ cubeCall.result = "ok"
    /\ cube_.depth = 2
    /\ writes[cubeCall.cell] = 2
    /\ cubeCall.got = ToSingle(5)

UnknownCoordinate == "UnknownCoordinate"

\* C12: a set or a get whose trade id is not among the ids of the cube or
\* whose date is not in its date grid fails with UnknownCoordinate and leaves
\* the cube as it was.
C12_UnknownCoordinateFails ==
    [][(/\ cubeCall'.op \in {"set", "get"}
        /\ \/ cubeCall'.cell[1] \notin 1..cube_.ids
           \/ cubeCall'.cell[2] \notin 1..cube_.dates) =>
            /\ cubeCall'.result = UnknownCoordinate
            /\ cube_' = cube_
      ]_vars

\* a set with a date outside the grid failed on a cube that holds a value
C12_Witness ==
    /\ cubeCall.op = "set"
    /\ cubeCall.result = UnknownCoordinate
    /\ cubeCall.cell[1] \in 1..cube_.ids
    /\ cubeCall.cell[2] = cube_.dates + 1
    /\ CellsSet # {}

\* C13: initCube asked for a depth other than 1 or 2 fails with the depth
\* error and makes no cube; asked for depth 1 or 2 it makes a cube of that
\* depth.
C13_UnsupportedCubeDepth ==
    rpc \in {"cubeFailed", "cubeUse"} =>
        IF cubeDepth_ \in {1, 2}
        THEN /\ rpc = "cubeUse"
             /\ cube_ # NoCube
             /\ cube_.depth = cubeDepth_
        ELSE /\ rpc = "cubeFailed"
             /\ cube_ = NoCube
             /\ cubeCall.result = "UnsupportedCubeDepth"

\* initCube failed for depth 0
C13_Witness ==
    /\ rpc = "cubeFailed"
    /\ cubeDepth_ = 0
    /\ cubeCall.op = "initCube"

----------------------------------------------------------------------------
(* Properties of the scenario writer, checked under SpecWriter *)

\* C14: the writer is a pure tap: every next(d) of the writer asks the
\* wrapped generator once, for the same date, and hands its caller the very
\* scenario the generator made, keys, values and numeraire, so the caller
\* sees the stream it would see without the writer.
C14_WriterIsPureTap ==
    /\ src_.asked = consumer.asked
    /\ consumer.got = src_.produced
    /\ Len(src_.asked) = scenarioWriter.i_

\* three calls went through a writer whose generator lists two different
\* keys, the last scenario in another order than the first
C14_Witness ==
    /\ scenarioWriter.i_ = 3
    /\ Len(src_.keys) = 2
    /\ src_.produced[3].keys # src_.produced[1].keys
    /\ consumer.got[3] = src_.produced[3]

\* C15: after n >= 1 calls the file holds the header row first when header
\* writing is on, and only there, then one data row for each call in call
\* order; every row has 1 + K fields, K the number of keys of the first
\* scenario, and the columns follow the key order of the first scenario.
C15_HeaderOnceThenRows ==
    LET n == scenarioWriter.i_
        file == scenarioWriter.file
        h == IF scenarioWriter.header THEN 1 ELSE 0
        first == src_.produced[1]
    IN n >= 1 =>
        /\ Len(file) = h + n
        /\ scenarioWriter.header => file[1] = [kind |-> "header", fields |-> <<"Date">> \o first.keys]
        /\ \A j \in 1..n :
             /\ file[h + j].kind = "data"
             /\ Len(file[h + j].fields) = 1 + Len(first.keys)
             /\ file[h + j].fields[1] = src_.asked[j]
             /\ \A i \in 1..Len(first.keys) :
                  file[h + j].fields[1 + i] = [text |-> src_.produced[j].data[first.keys[i]]]

\* header on, three calls, two different keys, a later scenario listing them
\* in the other order
C15_Witness ==
    /\ scenarioWriter.header
    /\ scenarioWriter.i_ = 3
    /\ Len(scenarioWriter.file) = 4
    /\ Len(src_.keys) = 2
    /\ src_.produced[2].keys # src_.produced[1].keys

----------------------------------------------------------------------------
(* ScenarioSimMarket::update called on a market of its own (SpecMarket) *)

\* the step is an update call, and the date it was called for
UpdateCalled == Len(updates') = Len(updates) + 1
CalledDate == updates'[Len(updates')][1]

\* C16: with a sink attached, a successful update(d) records at the sink's
\* position the scenario's numeraire, the fixing at d of every configured index
\* and the FX spot of every configured currency but the base currency, read
\* from the cells as written by this call with the fixings applied for d, and
\* moves the sink on by one; a failing update leaves record and position alone
C16_SinkRecordsAfterWrites ==
    [][ (UpdateCalled /\ asd_) =>
          IF updateResult' = "ok"
          THEN /\ asdPos' = asdPos + 1
               /\ asdData'.pos = asdPos
               /\ asdData'.numeraire = scenario'.numeraire
               /\ fixingDate' = CalledDate
               /\ DOMAIN asdData'.index = parameters_.additionalScenarioDataIndices
               /\ \A i \in DOMAIN asdData'.index :
                     asdData'.index[i] = IndexFixing(i, CalledDate, simData_', CalledDate)
               /\ DOMAIN asdData'.fx =
                     parameters_.additionalScenarioDataCcys \ {parameters_.baseCcy}
               /\ \A c \in DOMAIN asdData'.fx :
                     asdData'.fx[c] =
                        simData_'[RiskFactorKey("FXSpot", c \o parameters_.baseCcy, 0)]
          ELSE /\ asdPos' = asdPos
               /\ asdData' = asdData ]_vars

\* a second record of an index fixing and an FX spot was made after a failed update
C16_Witness ==
    /\ asd_
    /\ Len(updates) = 3
    /\ updateResult = "ok"
    /\ asdData.pos = 1
    /\ asdPos = 2
    /\ DOMAIN asdData.index # {}
    /\ DOMAIN asdData.fx = {"EUR"}
    /\ RiskFactorKey("FXSpot", "EURUSD", 0) \in DOMAIN scenario.data
    /\ asdData.fx["EUR"] = scenario.data[RiskFactorKey("FXSpot", "EURUSD", 0)]

\* update(d), then reset() of the generator, then update(d) again
UpdatedAfterReset ==
    UpdateCalled /\ prevUpdate.stage = "reset" /\ prevUpdate.date = CalledDate

DeclaresNothing(p) == p.ccys = {} /\ p.fxCcyPairs = {} /\ p.indices = {}

\* C18: parameters declaring no currency and no index build a market with an
\* empty quote bank, and update with a scenario without keys succeeds on it
C18_EmptyMarketBuildsAndUpdates ==
    DeclaresNothing(parameters_) =>
       /\ built # "failed"
       /\ built = "yes" => simData_ = <<>>
       /\ (built = "yes" /\ updates # <<>> /\ scenario.keys = <<>>) => updateResult = "ok"

\* C19: the quote bank is never resized after construction: whatever updates
\* were called, successful or failing, the registered keys are those the
\* constructor registered
C19_BankNeverResized ==
    built = "yes" => DOMAIN simData_ = ConstructKeys(parameters_)

\* a successful update and then one failing on a key the bank does not hold
C19_Witness ==
    /\ built = "yes"
    /\ DOMAIN simData_ # {}
    /\ asd_ /\ asdPos >= 1
    /\ updateResult = "pointsMissing"
    /\ ForeignKey \in Range(scenario.keys)

\* C20: every update(d) takes exactly one scenario from the generator, asked
\* for the date d, and every cell the call writes gets the value of that
\* scenario, also when the call ends in a mismatch error; the generator is
\* asked by nothing but update
C20_OneScenarioPerUpdate ==
    [][ /\ Len(scenarioGenerator_'.asked) = Len(updates')
        /\ UpdateCalled =>
             /\ scenarioGenerator_'.asked = Append(scenarioGenerator_.asked, CalledDate)
             /\ scenarioGenerator_'.pos = scenarioGenerator_.pos + 1
             /\ scenario' = GeneratorScenario(scenarioGenerator_, CalledDate)
             /\ \A k \in DOMAIN simData_' :
                   simData_'[k] = IF setCount'[k] > 0 THEN ScenarioGet(scenario', k)
                                  ELSE simData_[k] ]_vars

\* a second update, for another date, failed on the size check after writing
\* a cell, and the generator has moved on twice
C20_Witness ==
    /\ Len(updates) = 2
    /\ updates[1][1] # updates[2][1]
    /\ updateResult = "sizeMismatch"
    /\ \E k \in DOMAIN setCount : setCount[k] > 0
    /\ scenarioGenerator_.pos = 2

----------------------------------------------------------------------------
(* The ScenarioSimMarket constructor (SpecConstruct) *)

\* a volatility category in scope carries a decay mode that is not supported
UnsupportedDecayMode(p) ==
    \E cat \in VolCategories : p.vol[cat].names # {} /\ p.vol[cat].decayMode \notin DecayModes

\* C21: the constructor fails for parameters with an unsupported decay mode of
\* a volatility category in scope, whatever the category's simulate flag
C21_UnsupportedDecayModeFails ==
    (rpc # "construct" /\ UnsupportedDecayMode(parameters_)) => built = "failed"

\* one key per pillar of every entity the parameters declare
EntityKeys(p) ==
    { RiskFactorKey("DiscountCurve", c, i - 1) : c \in p.ccys, i \in 1..Len(p.yieldCurveTenors) }
    \cup { RiskFactorKey("YieldCurve", n, i - 1) :
              n \in p.yieldCurveNames, i \in 1..Len(p.yieldCurveTenors) }
    \cup { RiskFactorKey("IndexCurve", n, i - 1) :
              n \in p.indices, i \in 1..Len(p.yieldCurveTenors) }
    \cup { RiskFactorKey("SurvivalProbability", n, i - 1) :
              n \in p.defaultNames, i \in 1..Len(p.defaultTenors) }
    \cup { RiskFactorKey("EQSpot", n, 0) : n \in p.equityNames }
    \cup { RiskFactorKey("DividendYield", n, i - 1) :
              n \in p.equityNames, i \in 1..Len(p.equityTenors) }
    \cup { RiskFactorKey("SecuritySpread", n, 0) : n \in p.securities }

\* C22: after construction every pillar of every declared entity (discount,
\* benchmark and index curves, default curves, equity spots and dividend
\* curves, security spreads) has its cell in the quote bank
C22_EveryPillarHasItsCell ==
    built = "yes" => EntityKeys(parameters_) \subseteq DOMAIN simData_

\* the pillar indices registered for a category and name
RegisteredIndices(cat, name) ==
    { k[3] : k \in { q \in DOMAIN simData_ : q[1] = cat /\ q[2] = name } }

\* C23: the simulate flag of a volatility category alone decides its cells:
\* with the flag, every name of the category has the cells 0 .. grid size - 1
\* over a structure of quotes; without it the category has no cell and every
\* name gets a decaying wrapper
C23_SimulateFlagDecidesCells ==
    built = "yes" =>
       \A cat \in VolCategories :
          /\ \A k \in DOMAIN simData_ :
                k[1] = cat => parameters_.vol[cat].simulate /\ k[2] \in parameters_.vol[cat].names
          /\ \A name \in parameters_.vol[cat].names :
                IF parameters_.vol[cat].simulate
                THEN /\ RegisteredIndices(cat, name) = 0..(NumExpiries * VolPoints(cat) - 1)
                     /\ volCurves_[cat][name].kind = "quotes"
                ELSE /\ RegisteredIndices(cat, name) = {}
                     /\ volCurves_[cat][name].kind = "dynamic"
                     /\ volCurves_[cat][name].decayMode \in DecayModes

\* a market with simulated swaption and FX volatilities and decaying cap/floor
\* and equity volatilities
C23_Witness ==
    /\ built = "yes"
    /\ \A cat \in VolCategories : parameters_.vol[cat].names # {}
    /\ parameters_.vol["SwaptionVolatility"].simulate
    /\ parameters_.vol["FXVolatility"].simulate
    /\ ~parameters_.vol["OptionletVolatility"].simulate
    /\ ~parameters_.vol["EQVolatility"].simulate
    /\ RiskFactorKey("SwaptionVolatility", "EUR", NumExpiries * NumTerms - 1) \in DOMAIN simData_

----------------------------------------------------------------------------
(* The order of the statements of update, and what a failed update leaves *)

\* where the last update did e
Positions(e) == { i \in DOMAIN updateTrace : updateTrace[i] = e }

Before(a, b) == \A i \in Positions(a), j \in Positions(b) : i < j

\* C24: in mode Disable a successful update suspends the notifications before
\* the first cell is written, refreshes exactly once after the last cell is
\* written, and enables the notifications again before the fixings are applied
\* and the aggregation data recorded; in mode Defer the notifications are
\* deferred and enabled at the same points, and there is no refresh
C24_SuspendRefreshEnable ==
    (updateResult = "ok" /\ om \in {"Disable", "Defer"}) =>
       LET off == IF om = "Disable" THEN "disableUpdates(false)" ELSE "disableUpdates(true)"
       IN /\ Positions(off) = {1}
          /\ Cardinality(Positions("refresh")) = (IF om = "Disable" THEN 1 ELSE 0)
          /\ refreshes = (IF om = "Disable" THEN 1 ELSE 0)
          /\ Cardinality(Positions("enableUpdates")) = 1
          /\ Before("setValue", "refresh")
          /\ Before("setValue", "enableUpdates")
          /\ Before("refresh", "enableUpdates")
          /\ Before("enableUpdates", "fixingManager_->update")
          /\ Before("enableUpdates", "asd_")
          /\ Cardinality(Positions("fixingManager_->update")) = 1
          /\ updatesEnabled = "enabled"

\* a successful update of two cells in mode Disable with the sink attached
C24_Witness ==
    /\ om = "Disable"
    /\ updateResult = "ok"
    /\ asd_
    /\ Cardinality(Positions("setValue")) = 2
    /\ Positions("refresh") # {}

\* C26: update is not all-or-nothing: the checks throw only after the whole key
\* loop, and a failed update has set every recognised key of its scenario to
\* the scenario's value, replaced the numeraire and moved the evaluation date
C26_FailedUpdateKeepsItsWrites ==
    [][ (UpdateCalled /\ updateResult' # "ok") =>
          /\ numeraire_' = scenario'.numeraire
          /\ evaluationDate' = CalledDate
          /\ \A k \in Range(scenario'.keys) \cap DOMAIN simData_ :
                simData_'[k] = scenario'.data[k]
          /\ Positions("throw")' = {Len(updateTrace')}
          /\ Cardinality(Positions("setValue")') + Cardinality(Positions("missingPoint")')
                = Len(scenario'.keys) ]_vars

\* an update for date 2 failed on its first key and still wrote its second
C26_Witness ==
    /\ updateResult = "pointsMissing"
    /\ Len(scenario.keys) = 2
    /\ scenario.keys[1] = ForeignKey
    /\ simData_[scenario.keys[2]] = scenario.data[scenario.keys[2]]
    /\ numeraire_ = scenario.numeraire
    /\ evaluationDate = 2

\* C27: in mode Disable or Defer the notifications are enabled again only when
\* update succeeds: after an update that failed on a mismatch the switch is
\* still off
C27_FailedUpdateLeavesUpdatesOff ==
    (updateResult \in {"pointsMissing", "sizeMismatch"} /\ om \in {"Disable", "Defer"}) =>
       /\ updatesEnabled = (IF om = "Disable" THEN "disabled" ELSE "deferred")
       /\ Positions("enableUpdates") = {}

\* in mode Defer an update succeeded and the next failed on the size check
C27_Witness ==
    /\ om = "Defer"
    /\ updateResult = "sizeMismatch"
    /\ asd_ /\ asdPos = 1
    /\ updatesEnabled = "deferred"

----------------------------------------------------------------------------
(* CurveLoader: order() and canBuild() *)

MaxSpecs == 3             \* longest list of curve specs handed to order()

\* a curve spec: its name(), baseType() and curveConfigID()
CurveSpec(name, type, id) == [name |-> name, type |-> type, id |-> id]

\* the curve specs of the inputs: two yield curve specs share the curve
\* configuration A
CurveSpecs ==
    { CurveSpec("Yield/EUR/A", "Yield", "A"), CurveSpec("Yield/EUR/B", "Yield", "B"),
      CurveSpec("Yield/EUR/C", "Yield", "C"), CurveSpec("Yield/USD/A", "Yield", "A"),
      CurveSpec("FX/EUR/USD", "FX", "EURUSD") }

\* the names and the configuration IDs in the order of their strings
SpecNameOrder == <<"FX/EUR/USD", "Yield/EUR/A", "Yield/EUR/B", "Yield/EUR/C", "Yield/USD/A">>
ConfigIdOrder == <<"A", "B", "C">>

\* operator< and operator== of the curve specs: by name
SpecLess(a, b) == Rank(SpecNameOrder, a.name) < Rank(SpecNameOrder, b.name)
SpecEqual(a, b) == a.name = b.name

\* std::sort
RECURSIVE Insert(_, _)
Insert(x, sorted) ==
    IF sorted = <<>> THEN <<x>>
    ELSE IF SpecLess(x, Head(sorted)) THEN <<x>> \o sorted
    ELSE <<Head(sorted)>> \o Insert(x, Tail(sorted))

RECURSIVE Sort(_)
Sort(specs) == IF specs = <<>> THEN <<>> ELSE Insert(Head(specs), Sort(Tail(specs)))

\* std::unique and the resize: of neighbours that are equal the first stays
RECURSIVE Unique(_)
Unique(specs) ==
    IF Len(specs) < 2 THEN specs
    ELSE IF SpecEqual(specs[1], specs[2]) THEN Unique(<<specs[1]>> \o SubSeq(specs, 3, Len(specs)))
    ELSE <<specs[1]>> \o Unique(Tail(specs))

\* m[k] = v of a std::map
MapPut(m, k, v) == [x \in DOMAIN m \cup {k} |-> IF x = k THEN v ELSE m[x]]

\* the set<string> of required IDs is walked in the order of the strings
FirstId(ids) == CHOOSE r \in ids : \A q \in ids : Rank(ConfigIdOrder, r) <= Rank(ConfigIdOrder, q)

\* the IDs of the curve specs of a list
SpecIds(specs) == { specs[i].id : i \in DOMAIN specs }

\* canBuild finding every curve buildable whatever it requires
canBuildAnything(ycs, specs, curveConfigs, missingDependents, errs, continueOnError) ==
    IF ycs.id \notin DOMAIN curveConfigs
    THEN [ok |-> FALSE, threw |-> ~continueOnError,
          errors |-> IF continueOnError THEN MapPut(errs, ycs.name, "Can't get yield curve configuration")
                     ELSE errs,
          missingDependents |-> missingDependents]
    ELSE [ok |-> TRUE, threw |-> FALSE, errors |-> errs,
          missingDependents |-> MapPut(missingDependents, ycs.id, "")]

\* canBuild: no configuration is an error entry or an exception; a required
\* ID no spec of specs has is noted in missingDependents
canBuild(ycs, specs, curveConfigs, missingDependents, errs, continueOnError) ==
    IF ycs.id \notin DOMAIN curveConfigs
    THEN [ok |-> FALSE, threw |-> ~continueOnError,
          errors |-> IF continueOnError THEN MapPut(errs, ycs.name, "Can't get yield curve configuration")
                     ELSE errs,
          missingDependents |-> missingDependents]
    ELSE LET missing == curveConfigs[ycs.id] \ SpecIds(specs)
         IN [ok |-> missing = {}, threw |-> FALSE, errors |-> errs,
             missingDependents |->
                 MapPut(missingDependents, ycs.id,
                        IF missing = {} THEN "" ELSE FirstId(missing))]

\* one pass of the inner while loop over yieldCurveSpecs, from position i
RECURSIVE Pass(_, _)
Pass(st, i) ==
    IF st.threw \/ i > Len(st.yieldCurveSpecs) THEN st
    ELSE LET ycs == st.yieldCurveSpecs[i]
             r == canBuild(ycs, st.sortedYieldCurveSpecs, st.curveConfigs,
                           st.missingDependents, st.errors, st.continueOnError)
             seen == [st EXCEPT !.errors = r.errors, !.missingDependents = r.missingDependents]
         IN IF r.threw THEN [st EXCEPT !.threw = TRUE]
            ELSE IF r.ok
            THEN Pass([seen EXCEPT
                          !.sortedYieldCurveSpecs = Append(@, ycs),
                          !.yieldCurveSpecs = SubSeq(@, 1, i - 1) \o SubSeq(@, i + 1, Len(@))],
                      i)
            ELSE Pass(seen, i + 1)

\* every spec left over gets its entry in errors unless it has one
RECURSIVE MissingErrors(_, _, _)
MissingErrors(left, missingDependents, errs) ==
    IF left = <<>> THEN errs
    ELSE LET ycs == Head(left)
             e == IF ycs.name \in DOMAIN errs THEN errs
                  ELSE MapPut(errs, ycs.name,
                              "dependent curves missing - " \o missingDependents[ycs.id])
         IN MissingErrors(Tail(left), missingDependents, e)

\* the pass placed nothing, tested never
StalledNever(n, yieldCurveSpecs) == FALSE

\* n == yieldCurveSpecs.size(): the pass placed nothing
Stalled(n, yieldCurveSpecs) == n = Len(yieldCurveSpecs)

\* the outer while loop; it is given up as looping after MaxSpecs + 2 passes
RECURSIVE OrderLoop(_)
OrderLoop(st) ==
    IF Len(st.yieldCurveSpecs) = 0 \/ st.threw THEN st
    ELSE IF st.passes > MaxSpecs + 1 THEN [st EXCEPT !.looping = TRUE]
    ELSE LET n == Len(st.yieldCurveSpecs)
             after == [Pass(st, 1) EXCEPT !.passes = @ + 1]
         IN IF after.threw THEN after
            ELSE IF Stalled(n, after.yieldCurveSpecs)
            THEN [after EXCEPT !.errors = MissingErrors(after.yieldCurveSpecs,
                                                        after.missingDependents, @)]
            ELSE OrderLoop(after)

\* order(curveSpecs, curveConfigs, errors, continueOnError): what it leaves in
\* curveSpecs and errors, and how it ended
order(curveSpecs, curveConfigs, continueOnError) ==
    LET unique == Unique(Sort(curveSpecs))
        others == SelectSeq(unique, LAMBDA c : c.type # "Yield")
        st == OrderLoop([yieldCurveSpecs |-> SelectSeq(unique, LAMBDA c : c.type = "Yield"),
                         sortedYieldCurveSpecs |-> <<>>, missingDependents |-> <<>>,
                         errors |-> <<>>, curveConfigs |-> curveConfigs,
                         continueOnError |-> continueOnError, threw |-> FALSE,
                         looping |-> FALSE, passes |-> 0])
    IN [curveSpecs |-> IF st.threw \/ st.looping THEN others
                       ELSE st.sortedYieldCurveSpecs \o others,
        errors |-> st.errors,
        status |-> IF st.looping THEN "looping" ELSE IF st.threw THEN "threw" ELSE "returned",
        passes |-> st.passes,
        left |-> st.yieldCurveSpecs]

\* the lists of curve specs handed to order(), repetitions included
RECURSIVE SpecLists(_)
SpecLists(n) ==
    IF n = 0 THEN {<<>>}
    ELSE LET shorter == SpecLists(n - 1)
         IN shorter \cup { Append(l, c) : l \in { x \in shorter : Len(x) = n - 1 }, c \in CurveSpecs }

\* what a yield curve configuration may require
RequiredIds == {{}, {"A"}, {"B"}, {"C"}}

\* the curve configurations: A and B are configured, C may not be
CurveConfigs ==
    UNION { [ids -> RequiredIds] : ids \in {{"A", "B"}, {"A", "B", "C"}} }

\* order() called on the list
OrderCall ==
    /\ curveLoader.status = "none"
    /\ LET r == order(curveLoader.curveSpecs, curveLoader.curveConfigs,
                      curveLoader.continueOnError)
       IN curveLoader' = [curveSpecs |-> r.curveSpecs, curveConfigs |-> curveLoader.curveConfigs,
                          continueOnError |-> curveLoader.continueOnError,
                          errors |-> r.errors, status |-> r.status, passes |-> r.passes,
                          input |-> curveLoader.curveSpecs, left |-> r.left]
    /\ UNCHANGED <<marketVars, engineVars, rpc, setupVars, out_, ret, raised, steps,
                   portfolioSize, scenarioData_, cubeFromFile, fileVars, cubeCall,
                   writerVars, simVars, keyCompare>>

InitOrder ==
    /\ \E l \in SpecLists(MaxSpecs), cc \in CurveConfigs, coe \in BOOLEAN :
         curveLoader = [NoOrder EXCEPT !.curveSpecs = l, !.curveConfigs = cc,
                                       !.continueOnError = coe]
    /\ keyCompare = NoCompare
    /\ parameters_ = DefaultParameters
    /\ scenarioGenerator_ = NoGenerator
    /\ InitUnbuilt
    /\ om = "None"
    /\ ~asd_

NextOrder == OrderCall

SpecOrder == InitOrder /\ [][NextOrder]_vars

----------------------------------------------------------------------------
(* RiskFactorKey: operator== and operator< applied to the pairs of three keys *)

ComparedKeys ==
    { RiskFactorKey(t, n, i) : t \in Range(KeyTypeOrder), n \in Range(QualifierOrder),
                               i \in 0..(NumKeyIndices - 1) }

\* every pair of the three keys compared both ways
CompareKeys ==
    /\ ~keyCompare.done
    /\ keyCompare' = [keyCompare EXCEPT
           !.less = [i \in 1..3 |-> [j \in 1..3 |-> KeyLess(keyCompare.keys[i], keyCompare.keys[j])]],
           !.equal = [i \in 1..3 |-> [j \in 1..3 |-> KeyEqual(keyCompare.keys[i], keyCompare.keys[j])]],
           !.done = TRUE]
    /\ UNCHANGED <<marketVars, engineVars, rpc, setupVars, out_, ret, raised, steps,
                   portfolioSize, scenarioData_, cubeFromFile, fileVars, cubeCall,
                   writerVars, simVars, curveLoader>>

InitKeys ==
    /\ \E a, b, c \in ComparedKeys : keyCompare = [NoCompare EXCEPT !.keys = <<a, b, c>>]
    /\ curveLoader = NoOrder
    /\ parameters_ = DefaultParameters
    /\ scenarioGenerator_ = NoGenerator
    /\ InitUnbuilt
    /\ om = "None"
    /\ ~asd_

NextKeys == CompareKeys

SpecKeys == InitKeys /\ [][NextKeys]_vars

\* C25: two keys are equal iff category, qualifier and index all match; a key
\* is less than another iff its category comes first, or the categories match
\* and its qualifier comes first, or both match and its index is smaller; of
\* a < b, a == b and b < a exactly one holds, and the ordering is transitive.
C25_KeyOrderIsLexicographic ==
    keyCompare.done =>
       \A i, j \in 1..3 :
          LET a == keyCompare.keys[i]
              b == keyCompare.keys[j]
              lt == keyCompare.less[i][j]
              gt == keyCompare.less[j][i]
              eq == keyCompare.equal[i][j]
              ta == Rank(KeyTypeOrder, a[1])
              tb == Rank(KeyTypeOrder, b[1])
              na == Rank(QualifierOrder, a[2])
              nb == Rank(QualifierOrder, b[2])
          IN /\ eq <=> (a = b)
             /\ lt <=> \/ ta < tb
                       \/ ta = tb /\ na < nb
                       \/ ta = tb /\ na = nb /\ a[3] < b[3]
             /\ (lt /\ ~eq /\ ~gt) \/ (~lt /\ eq /\ ~gt) \/ (~lt /\ ~eq /\ gt)
             /\ \A k \in 1..3 :
                  (lt /\ keyCompare.less[j][k]) => keyCompare.less[i][k]

\* two keys of one category and one index that differ in the qualifier only
\* have been compared
C25_Witness ==
    /\ keyCompare.done
    /\ keyCompare.keys[1][1] = keyCompare.keys[2][1]
    /\ keyCompare.keys[1][3] = keyCompare.keys[2][3]
    /\ keyCompare.keys[1][2] # keyCompare.keys[2][2]
    /\ keyCompare.less[1][2]
    /\ keyCompare.less[2][3]

\* C28: when the simulation and the XVA stage are both active in one run, the
\* cube and the aggregation scenario data the XVA stage checks are the
\* in-memory objects of the simulation, never loaded from a file, they have
\* the same number of dates and samples, the cube has one row per trade of
\* the portfolio, and so none of the three cross-checks of the XVA stage
\* fails.
C28_SimulatedCubePassesXvaChecks ==
    (simulate_ /\ xva_) =>
       /\ raised \notin {"cubeCheck", "scenarioDataCheck", "loadCube", "loadScenarioData"}
       /\ (rpc \in {"xvaScenarioData", "postProcess", "xvaReports"}
              \/ Executed("cubeCheck")) =>
             /\ ~cubeFromFile
             /\ ~scenarioData_.fromFile
             /\ ~scenarioData_.null
             /\ CubeMatchesPortfolio(cube_, portfolioSize)
             /\ ScenarioDataMatchesCube(scenarioData_, cube_)

\* a run with simulation and XVA came through the three cross-checks with a
\* cube of more than one sample built by its simulation
C28_Witness ==
    /\ simulate_
    /\ xva_
    /\ Executed("scenarioDataCheck")
    /\ ~cubeFromFile
    /\ cube_.samples > 1
    /\ cube_.dates < NumDates

\* position of the yield curve specs of a list that have the configuration ID
YieldPositions(specs, id) ==
    { j \in DOMAIN specs : specs[j].type = "Yield" /\ specs[j].id = id }

\* the IDs the configuration of a placed yield curve spec requires
Requires(c) == curveLoader.curveConfigs[c.id]

\* the list order() returned has no name twice and its yield curve specs in
\* front of the others
NamesOnceYieldFirst ==
    LET specs == curveLoader.curveSpecs
    IN /\ \A i, j \in DOMAIN specs : specs[i].name = specs[j].name => i = j
       /\ \A i, j \in DOMAIN specs :
            (specs[i].type = "Yield" /\ specs[j].type # "Yield") => i < j

\* C29 as stated: after order() has returned the list has no two specs of the
\* same name, the yield curve specs precede all other specs, and every yield
\* curve spec comes after every yield curve spec whose configuration ID it
\* requires.
C29_DependenciesFirst ==
    curveLoader.status = "returned" =>
       LET specs == curveLoader.curveSpecs
       IN /\ NamesOnceYieldFirst
          /\ \A i \in DOMAIN specs : specs[i].type = "Yield" =>
               \A r \in Requires(specs[i]) : \A j \in YieldPositions(specs, r) : j < i

\* C29 as the code has it: after order() has returned the list has no two
\* specs of the same name, the yield curve specs precede all other specs, and
\* every yield curve spec comes after some yield curve spec of each
\* configuration ID it requires, after all of them when no two yield curve
\* specs of the list share a required ID.
C29_SomeDependencyFirst ==
    curveLoader.status = "returned" =>
       LET specs == curveLoader.curveSpecs
       IN /\ NamesOnceYieldFirst
          /\ \A i \in DOMAIN specs : specs[i].type = "Yield" =>
               \A r \in Requires(specs[i]) :
                  /\ \E j \in YieldPositions(specs, r) : j < i
                  /\ Cardinality(YieldPositions(specs, r)) = 1 =>
                        \A j \in YieldPositions(specs, r) : j < i

\* order() returned a list from which it removed a repeated spec and moved a
\* yield curve spec in front of the curve it is required by
C29_Witness ==
    /\ curveLoader.status = "returned"
    /\ Len(curveLoader.curveSpecs) = 2
    /\ Len(curveLoader.input) = 3
    /\ curveLoader.curveSpecs[1].id = "B"
    /\ curveLoader.curveSpecs[2].id = "A"
    /\ "B" \in Requires(curveLoader.curveSpecs[2])

\* the yield curve specs of the input, each name once
InputYieldNames ==
    { curveLoader.input[i].name : i \in { j \in DOMAIN curveLoader.input :
                                             curveLoader.input[j].type = "Yield" } }

\* the names of the list order() left
PlacedNames == { curveLoader.curveSpecs[i].name : i \in DOMAIN curveLoader.curveSpecs }

\* a yield curve spec of the input has no configuration
ConfigMissing ==
    \E i \in DOMAIN curveLoader.input :
       /\ curveLoader.input[i].type = "Yield"
       /\ curveLoader.input[i].id \notin DOMAIN curveLoader.curveConfigs

\* C30: order() ends on every input: it never makes more passes than it
\* places specs plus one, a pass that places nothing is the last, every yield
\* curve spec then left is out of the list and has its entry in errors, and
\* with every configuration present it returns without an exception also
\* when continueOnError is false.
C30_OrderEnds ==
    curveLoader.status # "none" =>
       /\ curveLoader.status \in {"returned", "threw"}
       /\ curveLoader.status = "threw" => (~curveLoader.continueOnError /\ ConfigMissing)
       /\ curveLoader.status = "returned" =>
            /\ curveLoader.passes <= Cardinality(InputYieldNames \cap PlacedNames) + 1
            /\ \A n \in InputYieldNames \ PlacedNames : n \in DOMAIN curveLoader.errors
            /\ \A n \in InputYieldNames \cap PlacedNames : n \notin DOMAIN curveLoader.errors
            /\ { curveLoader.left[i].name : i \in DOMAIN curveLoader.left }
                  = InputYieldNames \ PlacedNames

\* with continueOnError false order() returned from two curves that require
\* each other, both left out with an error, after placing a third
C30_Witness ==
    /\ curveLoader.status = "returned"
    /\ ~curveLoader.continueOnError
    /\ Len(curveLoader.left) = 2
    /\ Len(curveLoader.curveSpecs) = 1
    /\ curveLoader.curveSpecs[1].type = "Yield"
    /\ \A i \in DOMAIN curveLoader.left :
         /\ curveLoader.left[i].name \in DOMAIN curveLoader.errors
         /\ \E j \in DOMAIN curveLoader.left :
              j # i /\ curveLoader.left[j].id \in Requires(curveLoader.left[i])

====
